---- MODULE Spec2Model ----
(***************************************************************************)
(* A model of the deep-cloning engine of kaptinlin/deepclone (clone.go):   *)
(* the generic Clone dispatch, the capacity preserving fast paths, the     *)
(* Cloneable hook and the reflective walker with its visited table and     *)
(* struct field-action cache.                                              *)
(*                                                                         *)
(* Go values are records (GoValue); storage that can be shared (pointer    *)
(* targets, slice backing arrays, maps) lives in `heap`, a function from   *)
(* block ids to blocks.  A pointer or slice names a block and a cell       *)
(* offset, so its address (reflect.Value.Pointer) is the pair              *)
(* <<block, offset>>: a slice and a pointer to its first element have the  *)
(* same address, as they do in Go.  The recursion of the walker is an      *)
(* explicit stack of frames; one action is one cloneX entry or one return  *)
(* into a cloneX loop.                                                     *)
(***************************************************************************)
EXTENDS Integers, Sequences, FiniteSets, TLC

----------------------------------------------------------------------------
(* Bounds of the model *)

\* Largest length of the scalar slices drawn as inputs.
MaxLen == 2

\* Cells of the scalar backing array; capacities range up to it.
ScalarCap == 3
\* The number of Clone calls one caller makes.
MaxCalls == 3
\* The number of goroutines calling Clone at the same time.
NumGoroutines == 2
\* The number of ResetCache calls made while they run.
MaxResets == 1

----------------------------------------------------------------------------
(* Go types: reflect.Type restricted to the types of the inputs *)

Types ==
    { "int", "string", "any", "*int", "*any", "*Node", "Node",
      "[]any", "[]int", "[]int8", "[]*int", "[]*Node", "[1]any",
      "map[string]any", "map[string]int",
      "TwoSlices", "TwoMaps", "Graph", "TwoInts", "Holder",
      "Counter", "*Counter", "*WrongTypeCloneable", "WrongTypeCloneable",
      "chan int", "func() int", "unsafe.Pointer", "[]chan int", "[1]chan int",
      "map[string]chan int", "[]Counter", "WithOpaque", "Wrapper", "Outer", "Inner",
      "map[string]*any", "Registry", "[2]any", "*[2]any", "ArrHolder", "ArrPair" }

Kind(t) ==
    CASE t \in {"int", "int8"} -> "Int"
      [] t = "string" -> "String"
      [] t = "any" -> "Interface"
      [] t = "chan int" -> "Chan"
      [] t = "func() int" -> "Func"
      [] t = "unsafe.Pointer" -> "UnsafePointer"
      [] t \in {"*int", "*any", "*Node", "*Counter", "*WrongTypeCloneable",
                "*[2]any"} -> "Ptr"
      [] t \in {"[]any", "[]int", "[]int8", "[]*int", "[]*Node", "[]chan int",
                "[]Counter"} -> "Slice"
      [] t \in {"[1]any", "[1]chan int", "[2]any"} -> "Array"
      [] t \in {"map[string]any", "map[string]int", "map[string]chan int",
                "map[string]*any"} -> "Map"
      [] t \in {"Node", "TwoSlices", "TwoMaps", "Graph", "TwoInts", "Holder",
                "Counter", "WrongTypeCloneable", "WithOpaque", "Wrapper", "Outer",
                "Inner", "Registry", "ArrHolder", "ArrPair"} -> "Struct"
      [] OTHER -> "Invalid"

Elem(t) ==
    CASE t = "*int" -> "int"
      [] t = "*any" -> "any"
      [] t = "*Node" -> "Node"
      [] t = "*Counter" -> "Counter"
      [] t = "*WrongTypeCloneable" -> "WrongTypeCloneable"
      [] t = "[]any" -> "any"
      [] t = "[]int" -> "int"
      [] t = "[]int8" -> "int8"
      [] t = "[]*int" -> "*int"
      [] t = "[]*Node" -> "*Node"
      [] t \in {"[1]any", "[2]any"} -> "any"
      [] t = "*[2]any" -> "[2]any"
      [] t = "map[string]any" -> "any"
      [] t = "map[string]int" -> "int"
      [] t \in {"[]chan int", "[1]chan int", "map[string]chan int"} -> "chan int"
      [] t = "[]Counter" -> "Counter"
      [] t = "map[string]*any" -> "*any"
      [] OTHER -> ""

\* reflect.Type.Len of an array type.
ArrayLen(t) ==
    CASE t \in {"[1]any", "[1]chan int"} -> 1
      [] t = "[2]any" -> 2
      [] OTHER -> 0

Field(name, type, exported) == [name |-> name, type |-> type, exported |-> exported]

\* reflect.Type.Field(i) for i in 1..NumField, in declaration order.
Fields(t) ==
    CASE t = "Node" -> << Field("Value", "int", TRUE), Field("Next", "*Node", TRUE) >>
      [] t = "TwoSlices" -> << Field("A", "[]any", TRUE), Field("B", "[]any", TRUE) >>
      [] t = "TwoMaps" -> << Field("A", "map[string]any", TRUE),
                             Field("B", "map[string]any", TRUE) >>
      [] t = "Graph" -> << Field("A", "*int", TRUE), Field("B", "*int", TRUE) >>
      [] t = "TwoInts" -> << Field("A", "[]int", TRUE), Field("B", "[]int", TRUE) >>
      [] t = "Holder" -> << Field("P", "*Node", TRUE), Field("S", "[]any", TRUE),
                            Field("M", "map[string]any", TRUE), Field("I", "any", TRUE),
                            Field("Arr", "[1]any", TRUE), Field("N", "[]int", TRUE) >>
      [] t = "Counter" -> << Field("Value", "int", TRUE), Field("Name", "string", TRUE) >>
      [] t = "WrongTypeCloneable" -> << Field("Value", "string", TRUE) >>
      [] t = "WithOpaque" -> << Field("Ch", "chan int", TRUE), Field("Fn", "func() int", TRUE),
                                Field("Ptr", "unsafe.Pointer", TRUE),
                                Field("Value", "any", TRUE),
                                Field("hidden", "[]int", FALSE),
                                Field("count", "int", FALSE) >>
      [] t = "Wrapper" -> << Field("C", "Counter", TRUE), Field("P", "*Counter", TRUE),
                             Field("I", "any", TRUE), Field("S", "[]Counter", TRUE) >>
      [] t = "Outer" -> << Field("Field", "Inner", TRUE) >>
      [] t = "Inner" -> << Field("Value", "int", TRUE) >>
      [] t = "Registry" -> << Field("Items", "[]any", TRUE),
                              Field("Index", "map[string]*any", TRUE) >>
      [] t = "ArrHolder" -> << Field("P", "*[2]any", TRUE), Field("A", "any", TRUE),
                               Field("B", "any", TRUE) >>
      [] t = "ArrPair" -> << Field("A", "any", TRUE), Field("P", "*[2]any", TRUE) >>
      [] OTHER -> << >>

NumField(t) == Len(Fields(t))

\* The method set of t holds Clone() any: Counter declares it on the value
\* receiver (so *Counter has it too), WrongTypeCloneable on the pointer receiver.
ImplementsCloneable(t) == t \in {"Counter", "*Counter", "*WrongTypeCloneable"}

\* reflect.Type.AssignableTo over Types: identical types, or any value to the
\* empty interface.
AssignableTo(from, to) == from = to \/ to = "any"

\* A pointer type whose element type is an array type.
IsArrayPtr(t) == Kind(t) = "Ptr" /\ Kind(Elem(t)) = "Array"

\* reflect.Type.ConvertibleTo over Types: assignable types, conversions between
\* integer types, from an integer to a string, and from a slice to an array
\* or to a pointer to an array of the same element type.  No two distinct
\* types of Types have identical underlying types.
ConvertibleTo(from, to) ==
    \/ AssignableTo(from, to)
    \/ Kind(from) = "Int" /\ Kind(to) \in {"Int", "String"}
    \/ Kind(from) = "Slice" /\ Kind(to) = "Array" /\ Elem(from) = Elem(to)
    \/ Kind(from) = "Slice" /\ IsArrayPtr(to) /\ Elem(from) = Elem(Elem(to))

----------------------------------------------------------------------------
(* Go values: reflect.Value *)

Val(k, t, b, o, n, c, s, str, e) ==
    [k |-> k, t |-> t, b |-> b, o |-> o, n |-> n, c |-> c, s |-> s, str |-> str, e |-> e]

\* reflect.Value{}: the invalid value.
Invalid == Val("Invalid", "", 0, 0, 0, 0, 0, << >>, << >>)

IntVal(t, i) == Val("Int", t, 0, 0, 0, 0, i, << >>, << >>)
StrVal(tokens) == Val("String", "string", 0, 0, 0, 0, 0, tokens, << >>)
\* A pointer to cell o of block b; block 0 is nil.
PtrVal(t, b, o) == Val("Ptr", t, b, o, 0, 0, 0, << >>, << >>)
\* A slice header: cells o+1 .. o+n of block b are its elements, o+1 .. o+c
\* its capacity; block 0 is the nil slice.
SliceVal(t, b, o, n, c) == Val("Slice", t, b, o, n, c, 0, << >>, << >>)
MapVal(t, b) == Val("Map", t, b, 0, 0, 0, 0, << >>, << >>)
StructVal(t, fs) == Val("Struct", t, 0, 0, 0, 0, 0, << >>, fs)
ArrayVal(t, es) == Val("Array", t, 0, 0, 0, 0, 0, << >>, es)
\* An interface value holding inner; e = << >> is the nil interface.
IfaceVal(t, inner) == Val("Interface", t, 0, 0, 0, 0, 0, << >>, << inner >>)
NilIface(t) == Val("Interface", t, 0, 0, 0, 0, 0, << >>, << >>)
\* A channel: b is its identity (0 is the nil channel), c its buffer size.
ChanVal(t, b, c) == Val("Chan", t, b, 0, 0, c, 0, << >>, << >>)
\* A function value: b is its code reference (0 is the nil func).
FuncVal(t, b) == Val("Func", t, b, 0, 0, 0, 0, << >>, << >>)
\* An unsafe.Pointer to cell o of block b; block 0 is nil.
UnsafeVal(b, o) == Val("UnsafePointer", "unsafe.Pointer", b, o, 0, 0, 0, << >>, << >>)

IsValid(v) == v.k # "Invalid"

\* reflect.Value.IsNil for the kinds that have a nil.
IsNil(v) ==
    CASE v.k \in {"Ptr", "Slice", "Map", "Chan", "Func", "UnsafePointer"} -> v.b = 0
      [] v.k = "Interface" -> v.e = << >>
      [] OTHER -> FALSE

\* reflect.Zero(t)
RECURSIVE Zero(_)
Zero(t) ==
    CASE Kind(t) = "Int" -> IntVal(t, 0)
      [] Kind(t) = "String" -> StrVal(<< >>)
      [] Kind(t) = "Ptr" -> PtrVal(t, 0, 0)
      [] Kind(t) = "Slice" -> SliceVal(t, 0, 0, 0, 0)
      [] Kind(t) = "Map" -> MapVal(t, 0)
      [] Kind(t) = "Interface" -> NilIface(t)
      [] Kind(t) = "Chan" -> ChanVal(t, 0, 0)
      [] Kind(t) = "Func" -> FuncVal(t, 0)
      [] Kind(t) = "UnsafePointer" -> UnsafeVal(0, 0)
      [] Kind(t) = "Array" -> ArrayVal(t, [i \in 1..ArrayLen(t) |-> Zero(Elem(t))])
      [] Kind(t) = "Struct" -> StructVal(t, [i \in 1..NumField(t) |-> Zero(Fields(t)[i].type)])
      [] OTHER -> Invalid

----------------------------------------------------------------------------
(* Storage *)

\* The block every zero-size allocation returns (runtime.zerobase): all
\* non-nil slices of capacity 0 made by make or reflect.MakeSlice point to it.
ZeroBase == 1

ArrBlock(t, cells) == [kind |-> "arr", t |-> t, cells |-> cells, keys |-> << >>]
\* A map block: keys[i] is mapped to cells[i].
MapBlock(t, keys, vals) == [kind |-> "map", t |-> t, cells |-> vals, keys |-> keys]

\* reflect.Value.Pointer for pointers, slices and maps.
Pointer(v) == << v.b, v.o >>

\* reflect.Value.Len is defined for arrays, channels, slices, maps, strings
\* and pointers to arrays (nil or not: the length of the array type), and
\* panics for every other kind.  No channel of the inputs has queued elements.
HasLen(h, v) == v.k \in {"Slice", "Array", "Map", "String", "Chan"} \/ IsArrayPtr(v.t)
LenOf(h, v) ==
    CASE v.k = "Slice" -> v.n
      [] v.k = "Array" -> Len(v.e)
      [] v.k = "Map" -> IF v.b = 0 THEN 0 ELSE Len(h[v.b].keys)
      [] v.k = "Ptr" -> ArrayLen(Elem(v.t))
      [] v.k = "Chan" -> 0
      [] OTHER -> Len(v.str)

\* reflect.Value.Cap is defined for arrays, channels, slices and pointers to
\* arrays (nil or not), and panics for every other kind.
HasCap(v) == v.k \in {"Slice", "Array", "Chan"} \/ IsArrayPtr(v.t)
CapOf(v) ==
    CASE v.k \in {"Slice", "Chan"} -> v.c
      [] v.k = "Ptr" -> ArrayLen(Elem(v.t))
      [] OTHER -> Len(v.e)

\* reflect.Value.Elem of a non-nil pointer: the cell it points to; for a
\* pointer to an array the array held in the cells from that one on.
Deref(h, v) ==
    IF IsArrayPtr(v.t)
    THEN ArrayVal(Elem(v.t), [i \in 1..ArrayLen(Elem(v.t)) |-> h[v.b].cells[v.o + i]])
    ELSE h[v.b].cells[v.o + 1]

\* reflect.New(t): the block it allocates, holding the zero value of t.
NewTarget(t) ==
    IF Kind(t) = "Array"
    THEN ArrBlock(Elem(t), [i \in 1..ArrayLen(t) |-> Zero(Elem(t))])
    ELSE ArrBlock(t, << Zero(t) >>)

\* reflect.Value.Index(i-1) of a slice, for i in 1..Len.
Index(h, v, i) == h[v.b].cells[v.o + i]

\* reflect.Value.Set(x) into a destination of type dst, for x assignable to
\* dst: the value itself, or the value boxed when dst is an interface type.
Assign(dst, x) == IF x.t = dst THEN x ELSE IfaceVal(dst, x)

\* p.Elem().Set(x) for a pointer p of element type t to cell o of block blk,
\* x assignable to t: the block afterwards.
SetTarget(blk, o, t, x) ==
    IF Kind(t) = "Array"
    THEN [blk EXCEPT !.cells = [i \in 1..Len(@) |->
             IF i > o /\ i <= o + ArrayLen(t) THEN x.e[i - o] ELSE @[i]]]
    ELSE [blk EXCEPT !.cells[o + 1] = Assign(t, x)]

\* reflect.Value.Convert(dst) panics, for x.t convertible to dst: a slice
\* shorter than the array it is converted to, or to a pointer to.
ConvertPanics(dst, x) ==
    /\ x.k = "Slice" /\ x.t # dst
    /\ Kind(dst) = "Array" \/ IsArrayPtr(dst)
    /\ x.n < ArrayLen(IF Kind(dst) = "Array" THEN dst ELSE Elem(dst))

\* reflect.Value.Convert(dst), for x.t convertible to dst, where it does not
\* panic: a slice converts to a copy of its first elements as an array, and
\* to a pointer to its backing array.
Convert(h, dst, x) ==
    CASE x.t = dst -> x
      [] Kind(dst) = "Interface" -> IfaceVal(dst, x)
      [] Kind(dst) = "Int" -> IntVal(dst, x.s)
      [] Kind(dst) = "Array" -> ArrayVal(dst, [i \in 1..ArrayLen(dst) |-> Index(h, x, i)])
      [] Kind(dst) = "Ptr" -> PtrVal(dst, x.b, x.o)
      [] OTHER -> StrVal(<< "rune" >>)

----------------------------------------------------------------------------
(* The struct field-action cache *)

\* getStructTypeInfo gone wrong: every field is copied, none cloned.
FieldActionCopyAll(f) == "copyField"

\* getStructTypeInfo leaving func and unsafe-pointer fields without an action.
FieldActionSkipOpaque(f) ==
    IF ~f.exported THEN "copyField"
    ELSE IF Kind(f.type) \in {"Slice", "Map", "Ptr", "Interface", "Array", "Struct"}
         THEN "cloneField"
         ELSE IF Kind(f.type) \in {"Func", "UnsafePointer"} THEN "noAction" ELSE "copyField"

\* The action getStructTypeInfo computes for one field: unexported fields and
\* scalar, chan, func and unsafe-pointer kinds are copied, the rest cloned.
FieldAction(f) ==
    IF ~f.exported THEN "copyField"
    ELSE IF Kind(f.type) \in {"Slice", "Map", "Ptr", "Interface", "Array", "Struct"}
         THEN "cloneField"
         ELSE "copyField"

\* getStructTypeInfo listing an action for the exported fields only.
IsExportedField(f) == f.exported
ComputeStructTypeInfoExportedOnly(t) ==
    [ actions |-> [i \in 1..Len(SelectSeq(Fields(t), IsExportedField)) |->
                      FieldAction(SelectSeq(Fields(t), IsExportedField)[i])],
      fields |-> Fields(t) ]
\* The descriptor getStructTypeInfo builds on a miss.
ComputeStructTypeInfo(t) ==
    [ actions |-> [i \in 1..NumField(t) |-> FieldAction(Fields(t)[i])],
      fields |-> Fields(t) ]

\* getStructTypeInfo run by one goroutine alone: the cached descriptor on a
\* hit, a fresh one inserted on a miss.
StructInfoOf(cache, t) == IF t \in DOMAIN cache THEN cache[t] ELSE ComputeStructTypeInfo(t)
\* getStructTypeInfo storing the new descriptor in a fresh map.
CacheAfterReplace(cache, t) ==
    IF t \in DOMAIN cache THEN cache ELSE (t :> ComputeStructTypeInfo(t))
\* getStructTypeInfo that never stores the descriptor.
CacheAfterNever(cache, t) == cache
CacheAfter(cache, t) ==
    IF t \in DOMAIN cache THEN cache ELSE (t :> ComputeStructTypeInfo(t)) @@ cache

----------------------------------------------------------------------------
(* State *)

VARIABLES
    heap,         \* block id -> block: the source's storage and the clone's
    T,            \* the static type Clone is instantiated with
    src,          \* the argument of Clone
    phase,        \* "start", "walk", "done", "panic", "overflow"
    mode,         \* "call": cloneValue(arg) is about to run; "ret": it returned ret
    arg,          \* the argument of the pending cloneValue call
    ret,          \* the value the last cloneValue call returned
    stack,        \* the cloneX calls in progress, innermost last
    visited,      \* ctx.visited: address -> cloned value
    result,       \* what Clone returned
    structCache,  \* structCache: struct type -> descriptor
    hookCalls,    \* calls of the source's Clone method made by this Clone call
    walkCalls,    \* calls of ctx.cloneValue made by this Clone call
    hist,         \* what a caller making several calls has observed so far
    conc          \* the goroutines, cacheMutex and the descriptors handed out

vars == << heap, T, src, phase, mode, arg, ret, stack, visited, result,
           structCache, hookCalls, walkCalls, hist, conc >>

\* What the walker can tell about the entries of a visited table: for each
\* address the kind, type, length and capacity of the clone stored under it.
\* Which storage the clone occupies decides nothing in the walker.
Seen(vis) ==
    [a \in DOMAIN vis |-> [k |-> vis[a].k, t |-> vis[a].t, n |-> vis[a].n, c |-> vis[a].c]]

\* A frame of the walker: the cloneX function, its argument v, the index i of
\* the element or field whose clone is awaited, the block nb it allocated, the
\* struct or array acc under construction, the key order ord of a map, and
\* what ctx.visited held when the function was entered.
Frame(fn, v, i, nb, acc, ord) ==
    [fn |-> fn, v |-> v, i |-> i, nb |-> nb, acc |-> acc, ord |-> ord,
     seen |-> Seen(visited)]

Top == stack[Len(stack)]
Pop == SubSeq(stack, 1, Len(stack) - 1)

\* The id of the next block an allocation returns.
NewBlock == Len(heap) + 1

----------------------------------------------------------------------------
(* The reflective walker: cloneContext.cloneValue and the cloneX methods *)

\* cloneValue(arg) is about to run.
Calling(kinds) == phase = "walk" /\ mode = "call" /\ arg.k \in kinds

\* The cloneX call on top of the stack got the clone of its element back.
Returned(fn) == phase = "walk" /\ mode = "ret" /\ stack # << >> /\ Top.fn = fn

\* The running cloneX returns v to its caller without having called deeper.
Returns(v) ==
    /\ ret' = v
    /\ mode' = "ret"
    /\ arg' = Invalid
    /\ UNCHANGED << stack, phase >>

\* The cloneX function of frame f is already running, on the same argument
\* and entered with the same visited table: what the walker does from here
\* depends on the argument, the source and the table only, so the call
\* arrives here again and again, each time one level deeper.
Recurs(f) == \E i \in 1..Len(stack) : stack[i].v = f.v /\ stack[i].seen = f.seen

\* The running cloneX calls cloneValue(a); f is its frame.  Recursion without
\* end exhausts the goroutine stack, which ends the program.
Calls(f, a) ==
    IF Recurs(f)
    THEN /\ phase' = "overflow"
         /\ UNCHANGED << stack, arg, ret, mode >>
    ELSE /\ stack' = Append(stack, f)
         /\ arg' = a
         /\ ret' = Invalid
         /\ mode' = "call"
         /\ UNCHANGED phase

\* The cloneX on top of the stack goes on with its next element.
CallsNext(f, a) ==
    /\ stack' = [stack EXCEPT ![Len(stack)] = f]
    /\ arg' = a
    /\ ret' = Invalid
    /\ mode' = "call"
    /\ UNCHANGED phase

\* The cloneX on top of the stack returns v.
PopReturns(v) ==
    /\ stack' = Pop
    /\ ret' = v
    /\ mode' = "ret"
    /\ arg' = Invalid
    /\ UNCHANGED phase

\* A reflect call panics; nothing recovers it.
Panics ==
    /\ phase' = "panic"
    /\ UNCHANGED << stack, arg, ret, mode >>

Entered == walkCalls' = walkCalls + 1

\* cloneValue on a scalar, string, func or unsafe pointer returns v; on an
\* invalid value it returns the invalid value.
CloneValueLeaf ==
    /\ Calling({"Int", "String", "Invalid", "Func", "UnsafePointer"})
    /\ Entered
    /\ Returns(arg)
    /\ UNCHANGED << heap, T, src, hist, conc, visited, result, structCache, hookCalls >>

\* cloneValue on a channel returns the zero value of its type.
CloneChan ==
    /\ Calling({"Chan"})
    /\ Entered
    /\ Returns(Zero(arg.t))
    /\ UNCHANGED << heap, T, src, hist, conc, visited, result, structCache, hookCalls >>

\* clonePointer up to its recursive call.
ClonePointer ==
    /\ Calling({"Ptr"})
    /\ Entered
    /\ LET addr == Pointer(arg)
           elemType == Elem(arg.t)
           newPtr == PtrVal(arg.t, NewBlock, 0)
       IN  IF IsNil(arg)
           THEN Returns(arg) /\ UNCHANGED << heap, visited >>
           ELSE IF addr \in DOMAIN visited
           THEN Returns(visited[addr]) /\ UNCHANGED << heap, visited >>
           ELSE /\ heap' = Append(heap, NewTarget(elemType))
                /\ visited' = (addr :> newPtr) @@ visited
                /\ Calls(Frame("clonePointer", arg, 0, NewBlock, Invalid, << >>),
                         Deref(heap, arg))
    /\ UNCHANGED << T, src, hist, conc, result, structCache, hookCalls >>

\* clonePointer storing the cloned pointee through the source pointer:
\* v.Elem().Set(clonedElem).
ClonePointerReturnIntoSource ==
    /\ Returned("clonePointer")
    /\ LET f == Top
           elemType == Elem(f.v.t)
       IN  IF ~IsValid(ret)
           THEN PopReturns(PtrVal(f.v.t, f.nb, 0)) /\ UNCHANGED heap
           ELSE IF ~AssignableTo(ret.t, elemType)
           THEN Panics /\ UNCHANGED heap
           ELSE /\ heap' = [heap EXCEPT ![f.v.b] = SetTarget(@, f.v.o, elemType, ret)]
                /\ PopReturns(PtrVal(f.v.t, f.nb, 0))
    /\ UNCHANGED << T, src, hist, conc, visited, result, structCache, hookCalls, walkCalls >>

\* clonePointer after cloneValue(v.Elem()) returned.
ClonePointerReturn ==
    /\ Returned("clonePointer")
    /\ LET f == Top
           elemType == Elem(f.v.t)
       IN  IF ~IsValid(ret)
           THEN PopReturns(PtrVal(f.v.t, f.nb, 0)) /\ UNCHANGED heap
           ELSE IF ~AssignableTo(ret.t, elemType)
           THEN Panics /\ UNCHANGED heap
           ELSE /\ heap' = [heap EXCEPT ![f.nb] = SetTarget(@, 0, elemType, ret)]
                /\ PopReturns(PtrVal(f.v.t, f.nb, 0))
    /\ UNCHANGED << T, src, hist, conc, visited, result, structCache, hookCalls, walkCalls >>

\* The element kinds whose slices cloneSlice records in the visited table.
NeedsTracking(t) == Kind(Elem(t)) \in {"Ptr", "Interface", "Slice", "Map", "Struct"}

\* reflect.MakeSlice(t, n, c): the block it allocates (none of its own when
\* c = 0) and the slice header it returns.
MakeSliceBlock(t, c) == ArrBlock(Elem(t), [i \in 1..c |-> Zero(Elem(t))])
\* reflect.MakeSlice called with the length for the capacity.
MakeSliceValueLenOnly(h, t, n, c) ==
    SliceVal(t, IF c = 0 THEN ZeroBase ELSE Len(h) + 1, 0, n, n)
MakeSliceValue(h, t, n, c) == SliceVal(t, IF c = 0 THEN ZeroBase ELSE Len(h) + 1, 0, n, c)
HeapAfterMakeSlice(h, t, c) == IF c = 0 THEN h ELSE Append(h, MakeSliceBlock(t, c))

\* cloneSlice up to its first recursive call.
CloneSlice ==
    /\ Calling({"Slice"})
    /\ Entered
    /\ LET addr == Pointer(arg)
           tracked == NeedsTracking(arg.t)
           hit == tracked /\ addr \in DOMAIN visited
           newSlice == MakeSliceValue(heap, arg.t, arg.n, arg.c)
           fresh ==
               /\ heap' = HeapAfterMakeSlice(heap, arg.t, arg.c)
               /\ visited' = IF tracked THEN (addr :> newSlice) @@ visited ELSE visited
               /\ IF arg.n = 0
                  THEN Returns(newSlice)
                  ELSE Calls(Frame("cloneSlice", arg, 1, newSlice.b, Invalid, << >>),
                             Index(heap, arg, 1))
       IN  IF IsNil(arg)
           THEN Returns(arg) /\ UNCHANGED << heap, visited >>
           ELSE IF hit /\ ~HasLen(heap, visited[addr])
           THEN Panics /\ UNCHANGED << heap, visited >>
           ELSE IF hit /\ LenOf(heap, visited[addr]) = arg.n /\ ~HasCap(visited[addr])
           THEN Panics /\ UNCHANGED << heap, visited >>
           ELSE IF hit /\ LenOf(heap, visited[addr]) = arg.n /\ CapOf(visited[addr]) = arg.c
           THEN Returns(visited[addr]) /\ UNCHANGED << heap, visited >>
           ELSE fresh
    /\ UNCHANGED << T, src, hist, conc, result, structCache, hookCalls >>

\* cloneSlice after cloneValue(v.Index(i)) returned.
CloneSliceReturn ==
    /\ Returned("cloneSlice")
    /\ LET f == Top
           elemType == Elem(f.v.t)
           newSlice == SliceVal(f.v.t, f.nb, 0, f.v.n, f.v.c)
           next ==
               IF f.i < f.v.n
               THEN CallsNext([f EXCEPT !.i = f.i + 1], Index(heap, f.v, f.i + 1))
               ELSE PopReturns(newSlice)
       IN  IF ~IsValid(ret)
           THEN next /\ UNCHANGED heap
           ELSE IF ~AssignableTo(ret.t, elemType)
           THEN Panics /\ UNCHANGED heap
           ELSE /\ heap' = [heap EXCEPT ![f.nb].cells[f.i] = Assign(elemType, ret)]
                /\ next
    /\ UNCHANGED << T, src, hist, conc, visited, result, structCache, hookCalls, walkCalls >>

\* The orders in which reflect.Value.MapKeys may list n keys.
KeyOrders(n) == { p \in [1..n -> 1..n] : \A i, j \in 1..n : p[i] = p[j] => i = j }

\* reflect.Value.SetMapIndex(key, val) on map block m.
SetMapIndex(m, key, val) ==
    IF \E i \in 1..Len(m.keys) : m.keys[i] = key
    THEN LET i == CHOOSE i \in 1..Len(m.keys) : m.keys[i] = key
         IN  [m EXCEPT !.cells[i] = val]
    ELSE [m EXCEPT !.keys = Append(@, key), !.cells = Append(@, val)]

\* cloneMap up to its first recursive call, cloneValue(key) of the first key.
CloneMap ==
    /\ Calling({"Map"})
    /\ Entered
    /\ LET addr == Pointer(arg)
           newMap == MapVal(arg.t, NewBlock)
           n == LenOf(heap, arg)
       IN  IF IsNil(arg)
           THEN Returns(arg) /\ UNCHANGED << heap, visited >>
           ELSE IF addr \in DOMAIN visited
           THEN Returns(visited[addr]) /\ UNCHANGED << heap, visited >>
           ELSE /\ heap' = Append(heap, MapBlock(arg.t, << >>, << >>))
                /\ visited' = (addr :> newMap) @@ visited
                /\ IF n = 0
                   THEN Returns(newMap)
                   ELSE \E ord \in KeyOrders(n) :
                            Calls(Frame("cloneMapKey", arg, 1, NewBlock, Invalid, ord),
                                  heap[arg.b].keys[ord[1]])
    /\ UNCHANGED << T, src, hist, conc, result, structCache, hookCalls >>

\* cloneMap after cloneValue(key) returned: it calls cloneValue(value).
CloneMapKeyReturn ==
    /\ Returned("cloneMapKey")
    /\ LET f == Top
       IN  CallsNext([f EXCEPT !.fn = "cloneMapValue", !.acc = ret],
                     heap[f.v.b].cells[f.ord[f.i]])
    /\ UNCHANGED << heap, T, src, hist, conc, visited, result, structCache, hookCalls, walkCalls >>

\* cloneMap after cloneValue(value) returned: the entry is inserted, converted
\* or dropped, and the loop goes on with the next key.
CloneMapValueReturn ==
    /\ Returned("cloneMapValue")
    /\ LET f == Top
           mapElemType == Elem(f.v.t)
           clonedKey == f.acc
           keep == IsValid(clonedKey) /\ IsValid(ret)
                   /\ (ret.t = mapElemType \/ ConvertibleTo(ret.t, mapElemType)
                         \/ AssignableTo(ret.t, mapElemType))
           converts == ret.t # mapElemType /\ ConvertibleTo(ret.t, mapElemType)
           clonedValue == IF converts THEN Convert(heap, mapElemType, ret) ELSE ret
           next ==
               IF f.i < Len(f.ord)
               THEN CallsNext([f EXCEPT !.fn = "cloneMapKey", !.i = f.i + 1, !.acc = Invalid],
                              heap[f.v.b].keys[f.ord[f.i + 1]])
               ELSE PopReturns(MapVal(f.v.t, f.nb))
       IN  IF keep /\ converts /\ ConvertPanics(mapElemType, ret)
           THEN Panics /\ UNCHANGED heap
           ELSE /\ heap' = IF keep
                           THEN [heap EXCEPT ![f.nb] = SetMapIndex(@, clonedKey, clonedValue)]
                           ELSE heap
                /\ next
    /\ UNCHANGED << T, src, hist, conc, visited, result, structCache, hookCalls, walkCalls >>

\* The first field at or after index from that cloneStruct clones by a
\* recursive call: exported, with action cloneField; NumField + 1 if none.
NextCloneField(info, from) ==
    LET n == Len(info.actions)
        S == { j \in from..n : info.fields[j].exported /\ info.actions[j] = "cloneField" }
    IN  IF S = {} THEN n + 1 ELSE CHOOSE j \in S : \A k \in S : j <= k

\* The struct acc after cloneStruct's loop ran over fields from .. to-1, none
\* of which it clones: exported copyField fields are assigned from v,
\* unexported fields are skipped.
CopyFields(acc, v, info, from, to) ==
    [acc EXCEPT !.e = [j \in 1..Len(acc.e) |->
        IF j >= from /\ j < to /\ info.fields[j].exported /\ info.actions[j] = "copyField"
        THEN v.e[j]
        ELSE acc.e[j]]]

\* cloneStruct up to its first recursive call.
CloneStruct ==
    /\ Calling({"Struct"})
    /\ Entered
    /\ LET structInfo == StructInfoOf(structCache, arg.t)
           j == NextCloneField(structInfo, 1)
           newStruct == CopyFields(Zero(arg.t), arg, structInfo, 1, j)
       IN  /\ structCache' = CacheAfter(structCache, arg.t)
           /\ IF j > Len(structInfo.actions)
              THEN Returns(newStruct)
              ELSE Calls(Frame("cloneStruct", arg, j, 0, newStruct, << >>), arg.e[j])
           /\ hist' = [hist EXCEPT !.called = @ \cup {arg.t},
                                   !.walked = @ \cup {arg.t}]
    /\ UNCHANGED << heap, T, src, conc, visited, result, hookCalls >>

\* cloneStruct after cloneValue(srcField) returned for field i.
CloneStructReturn ==
    /\ Returned("cloneStruct")
    /\ LET f == Top
           structInfo == StructInfoOf(structCache, f.v.t)
           dstType == structInfo.fields[f.i].type
           converts == ret.t # dstType /\ ConvertibleTo(ret.t, dstType)
           clonedField == IF converts THEN Convert(heap, dstType, ret) ELSE ret
           set == IF IsValid(ret)
                  THEN [f.acc EXCEPT !.e[f.i] = Assign(dstType, clonedField)]
                  ELSE f.acc
           j == NextCloneField(structInfo, f.i + 1)
           newStruct == CopyFields(set, f.v, structInfo, f.i + 1, j)
       IN  IF IsValid(ret) /\ converts /\ ConvertPanics(dstType, ret)
           THEN Panics
           ELSE IF IsValid(ret) /\ ~AssignableTo(clonedField.t, dstType)
           THEN Panics
           ELSE IF j > Len(structInfo.actions)
           THEN PopReturns(newStruct)
           ELSE CallsNext([f EXCEPT !.i = j, !.acc = newStruct], f.v.e[j])
    /\ UNCHANGED << heap, T, src, hist, conc, visited, result, structCache, hookCalls, walkCalls >>

\* cloneArray up to its first recursive call.
CloneArray ==
    /\ Calling({"Array"})
    /\ Entered
    /\ IF Len(arg.e) = 0
       THEN Returns(Zero(arg.t))
       ELSE Calls(Frame("cloneArray", arg, 1, 0, Zero(arg.t), << >>), arg.e[1])
    /\ UNCHANGED << heap, T, src, hist, conc, visited, result, structCache, hookCalls >>

\* cloneArray after cloneValue(v.Index(i)) returned.
CloneArrayReturn ==
    /\ Returned("cloneArray")
    /\ LET f == Top
           elemType == Elem(f.v.t)
           newArray == IF IsValid(ret)
                       THEN [f.acc EXCEPT !.e[f.i] = Assign(elemType, ret)]
                       ELSE f.acc
       IN  IF IsValid(ret) /\ ~AssignableTo(ret.t, elemType)
           THEN Panics
           ELSE IF f.i < Len(f.v.e)
           THEN CallsNext([f EXCEPT !.i = f.i + 1, !.acc = newArray], f.v.e[f.i + 1])
           ELSE PopReturns(newArray)
    /\ UNCHANGED << heap, T, src, hist, conc, visited, result, structCache, hookCalls, walkCalls >>

\* cloneInterface up to its recursive call on the concrete value.
CloneInterface ==
    /\ Calling({"Interface"})
    /\ Entered
    /\ IF IsNil(arg)
       THEN Returns(arg)
       ELSE Calls(Frame("cloneInterface", arg, 0, 0, Invalid, << >>), arg.e[1])
    /\ UNCHANGED << heap, T, src, hist, conc, visited, result, structCache, hookCalls >>

\* cloneInterface after cloneValue(concreteValue) returned.
CloneInterfaceReturn ==
    /\ Returned("cloneInterface")
    /\ LET f == Top
       IN  IF ~IsValid(ret)
           THEN PopReturns(f.v)
           ELSE IF ~AssignableTo(ret.t, f.v.t)
           THEN Panics
           ELSE PopReturns(IfaceVal(f.v.t, ret))
    /\ UNCHANGED << heap, T, src, hist, conc, visited, result, structCache, hookCalls, walkCalls >>

----------------------------------------------------------------------------
(* The top level: Clone[T](src) *)

\* any(src): the dynamic value of src, the invalid value if src is a nil
\* interface (reflect.ValueOf(src)).
ValueOf(x) ==
    IF x.k = "Interface" THEN (IF IsNil(x) THEN Invalid ELSE x.e[1]) ELSE x

\* x.(T) on an interface holding the dynamic value x: whether it succeeds, and
\* the value of static type T it yields.  Every type implements any.
\* The assertion taken to succeed whatever the dynamic type.
AssertableAlways(x, t) == IsValid(x)
Assertable(x, t) == IsValid(x) /\ (x.t = t \/ t = "any")
AssertTo(x, t) == IF x.t = t THEN x ELSE IfaceVal(t, x)

\* The types of the first type switch of Clone.
PrimitiveTypes == {"int", "int8", "string"}

\* The slice types of the second type switch, those among Types.
FastSliceTypes == {"[]int"}

\* The map types of the third type switch, those among Types.
FastMapTypes == {"map[string]int"}

\* cloneSliceExact(s) for a non-nil s: make(S, len(s), cap(s)) and copy.
CloneSliceExactBlock(h, s) ==
    ArrBlock(Elem(s.t), [i \in 1..s.c |-> IF i <= s.n THEN Index(h, s, i) ELSE Zero(Elem(s.t))])
\* cloneSliceExact returning nil for a slice without elements.
CloneSliceExactValueNilEmpty(h, s) ==
    IF IsNil(s) \/ s.n = 0 THEN Zero(s.t)
    ELSE SliceVal(s.t, IF s.c = 0 THEN ZeroBase ELSE Len(h) + 1, 0, s.n, s.c)
\* cloneSliceExact that leaves out the last element.
CloneSliceExactValueShort(h, s) ==
    IF IsNil(s) THEN s
    ELSE SliceVal(s.t, IF s.c = 0 THEN ZeroBase ELSE Len(h) + 1, 0,
                  IF s.n > 0 THEN s.n - 1 ELSE 0, s.c)
CloneSliceExactValue(h, s) ==
    IF IsNil(s) THEN s
    ELSE SliceVal(s.t, IF s.c = 0 THEN ZeroBase ELSE Len(h) + 1, 0, s.n, s.c)
CloneSliceExactHeap(h, s) ==
    IF IsNil(s) \/ s.c = 0 THEN h ELSE Append(h, CloneSliceExactBlock(h, s))

\* maps.Clone(m) for a non-nil m.
MapsClone(h, m) == MapBlock(m.t, h[m.b].keys, h[m.b].cells)

\* The outcome of a panic inside a user method.
HookPanic == Val("Panic", "", 0, 0, 0, 0, 0, << >>, << >>)

\* Counter.Clone of examples/custom: Value+1 and Name+"_copy".
CounterClone(c) ==
    StructVal("Counter", << IntVal("int", c.e[1].s + 1), StrVal(c.e[2].str \o << "_copy" >>) >>)

\* cloneable.Clone() on the dynamic value recv.  Counter.Clone has a value
\* receiver: called through a nil *Counter it panics, through a non-nil one it
\* runs on the pointee.  (*WrongTypeCloneable).Clone returns a string.
CloneMethod(h, recv) ==
    CASE recv.t = "Counter" -> CounterClone(recv)
      [] recv.t = "*Counter" -> IF IsNil(recv) THEN HookPanic ELSE CounterClone(Deref(h, recv))
      [] OTHER -> StrVal(<< "not the right type" >>)

Dyn == ValueOf(src)

IsPrimitive == Dyn.t \in PrimitiveTypes
IsFastSlice == ~IsPrimitive /\ Dyn.t \in FastSliceTypes
IsFastMap == ~IsPrimitive /\ ~IsFastSlice /\ Dyn.t \in FastMapTypes
ReachesReflection == ~IsPrimitive /\ ~IsFastSlice /\ ~IsFastMap /\ IsValid(Dyn)
\* Clone without its Cloneable check.
IsCloneableNever == FALSE
IsCloneable == ReachesReflection /\ ImplementsCloneable(Dyn.t)
HookReturnsT ==
    IsCloneable /\ CloneMethod(heap, Dyn) # HookPanic /\ Assertable(CloneMethod(heap, Dyn), T)
\* The Cloneable branch was not taken or fell through.
PastHook == ReachesReflection /\ (~IsCloneable \/ (CloneMethod(heap, Dyn) # HookPanic /\ ~HookReturnsT))

Ends(r) ==
    /\ phase' = "done"
    /\ result' = r
    /\ UNCHANGED << T, src, hist, conc, mode, arg, ret, stack, visited, structCache, walkCalls >>

\* Clone on a primitive: src is returned.
ClonePrimitive ==
    /\ phase = "start"
    /\ IsPrimitive
    /\ Ends(src)
    /\ UNCHANGED << heap, hookCalls >>

\* Clone on one of the fast-path slice types: cloneSliceExact.
CloneFastSlice ==
    /\ phase = "start"
    /\ IsFastSlice
    /\ heap' = CloneSliceExactHeap(heap, Dyn)
    /\ Ends(AssertTo(CloneSliceExactValue(heap, Dyn), T))
    /\ UNCHANGED hookCalls

\* Clone on one of the fast-path map types: src if nil, maps.Clone otherwise.
CloneFastMap ==
    /\ phase = "start"
    /\ IsFastMap
    /\ IF IsNil(Dyn)
       THEN Ends(src) /\ UNCHANGED heap
       ELSE /\ heap' = Append(heap, MapsClone(heap, Dyn))
            /\ Ends(AssertTo(MapVal(Dyn.t, NewBlock), T))
    /\ UNCHANGED hookCalls

\* Clone on a nil interface: reflect.ValueOf(src) is invalid.
CloneInvalid ==
    /\ phase = "start"
    /\ ~IsPrimitive /\ ~IsFastSlice /\ ~IsFastMap
    /\ ~IsValid(Dyn)
    /\ Ends(src)
    /\ UNCHANGED << heap, hookCalls >>

\* Clone on a Cloneable whose Clone method returns a value assertable to T.
CloneCloneable ==
    /\ phase = "start"
    /\ HookReturnsT
    /\ hookCalls' = hookCalls + 1
    /\ Ends(AssertTo(CloneMethod(heap, Dyn), T))
    /\ UNCHANGED heap

\* Clone on a Cloneable whose Clone method panics.
CloneCloneablePanics ==
    /\ phase = "start"
    /\ IsCloneable
    /\ CloneMethod(heap, Dyn) = HookPanic
    /\ hookCalls' = hookCalls + 1
    /\ phase' = "panic"
    /\ UNCHANGED << heap, T, src, hist, conc, mode, arg, ret, stack, visited, result, structCache,
                    walkCalls >>

\* Clone on a nil pointer that got past the Cloneable check.
CloneNilPointer ==
    /\ phase = "start"
    /\ PastHook
    /\ Dyn.k = "Ptr" /\ IsNil(Dyn)
    /\ hookCalls' = IF IsCloneable THEN hookCalls + 1 ELSE hookCalls
    /\ Ends(src)
    /\ UNCHANGED heap

\* Clone starts the walker: newCloneContext and ctx.cloneValue(v).
CloneReflect ==
    /\ phase = "start"
    /\ PastHook
    /\ ~(Dyn.k = "Ptr" /\ IsNil(Dyn))
    /\ hookCalls' = IF IsCloneable THEN hookCalls + 1 ELSE hookCalls
    /\ phase' = "walk"
    /\ mode' = "call"
    /\ arg' = Dyn
    /\ visited' = [a \in {} |-> Invalid]
    /\ UNCHANGED << heap, T, src, hist, conc, ret, stack, result, structCache, walkCalls >>

\* ctx.cloneValue(v) returned to Clone: cloned.Interface().(T), or src if the
\* clone is invalid.
CloneReturn ==
    /\ phase = "walk" /\ mode = "ret" /\ stack = << >>
    /\ IF ~IsValid(ret)
       THEN /\ phase' = "done"
            /\ result' = src
       ELSE IF Assertable(ret, T)
       THEN /\ phase' = "done"
            /\ result' = AssertTo(ret, T)
       ELSE /\ phase' = "panic"
            /\ UNCHANGED result
    /\ UNCHANGED << heap, T, src, hist, conc, mode, arg, ret, stack, visited, structCache,
                    hookCalls, walkCalls >>

----------------------------------------------------------------------------
(* The inputs: source graphs as the tests and examples build them *)

\* The blocks of the source.
ArrB == 2        \* a backing array of two any cells: full := make([]any, 2)
MapB == 3        \* map[string]any{"k": ...}
N1B == 4         \* node1 := &Node{Value: 1}
N2B == 5         \* node2 := &Node{Value: 2, Next: node1}
IntB == 6        \* shared := 99
ScalarB == 7     \* a backing array of ScalarCap integers
EmptyMapB == 8   \* map[string]any{}
CounterB == 9    \* &Counter{Value: 10, Name: "main"}
WrongB == 10     \* &WrongTypeCloneable{Value: "test"}
IntMapB == 11    \* map[string]int{"a": 1, "b": 2}
EmptyIntMapB == 12   \* map[string]int{}
ChanB == 13      \* a backing array of three channels: nil, unbuffered, buffered
ChanMapB == 14   \* map[string]chan int{"n": nil, "u": unbuffered, "b": buffered}
CountersB == 15  \* []Counter{{Value: 10, Name: "main"}}
PtrMapB == 16    \* map[string]*any{"nil": nil, "valid": &full[0]}
NSrc == 16

Box(x) == IfaceVal("any", x)
Seven == Box(IntVal("int", 7))
CounterMain == StructVal("Counter", << IntVal("int", 10), StrVal(<< "main" >>) >>)

NilChan == ChanVal("chan int", 0, 0)         \* var ch chan int
Unbuffered == ChanVal("chan int", 1, 0)      \* make(chan int)
Buffered == ChanVal("chan int", 2, 5)        \* make(chan int, 5)
TheFunc == FuncVal("func() int", 1)          \* fn := func() int { return 42 }
UnsafeInt == UnsafeVal(IntB, 0)              \* unsafe.Pointer(&x)

SrcHeap(c0, c1, mv, nx1, st) ==
    << ArrBlock("", << >>),
       ArrBlock("any", << c0, c1 >>),
       MapBlock("map[string]any", << StrVal(<< "k" >>) >>, << mv >>),
       ArrBlock("Node", << StructVal("Node", << IntVal("int", 1), nx1 >>) >>),
       ArrBlock("Node", << StructVal("Node", << IntVal("int", 2), PtrVal("*Node", N1B, 0) >>) >>),
       ArrBlock("int", << IntVal("int", 99) >>),
       ArrBlock(st, [i \in 1..ScalarCap |-> IntVal(st, 89 + i)]),
       MapBlock("map[string]any", << >>, << >>),
       ArrBlock("Counter", << CounterMain >>),
       ArrBlock("WrongTypeCloneable",
                << StructVal("WrongTypeCloneable", << StrVal(<< "test" >>) >>) >>),
       MapBlock("map[string]int", << StrVal(<< "a" >>), StrVal(<< "b" >>) >>,
                << IntVal("int", 1), IntVal("int", 2) >>),
       MapBlock("map[string]int", << >>, << >>),
       ArrBlock("chan int", << NilChan, Unbuffered, Buffered >>),
       MapBlock("map[string]chan int",
                << StrVal(<< "n" >>), StrVal(<< "u" >>), StrVal(<< "b" >>) >>,
                << NilChan, Unbuffered, Buffered >>),
       ArrBlock("Counter", << CounterMain >>),
       MapBlock("map[string]*any", << StrVal(<< "nil" >>), StrVal(<< "valid" >>) >>,
                << Zero("*any"), PtrVal("*any", ArrB, 0) >>) >>

Full == SliceVal("[]any", ArrB, 0, 2, 2)       \* full
Sub == SliceVal("[]any", ArrB, 0, 1, 2)        \* full[:1]
SubEmpty == SliceVal("[]any", ArrB, 0, 0, 2)   \* full[:0]
Empty(t) == SliceVal(t, ZeroBase, 0, 0, 0)     \* make(t, 0)
PElem == PtrVal("*any", ArrB, 0)               \* &full[0]
PArr == PtrVal("*[2]any", ArrB, 0)             \* p := &arr, with full = arr[:]
TheMap == MapVal("map[string]any", MapB)
EmptyMap == MapVal("map[string]any", EmptyMapB)
PN1 == PtrVal("*Node", N1B, 0)
PN2 == PtrVal("*Node", N2B, 0)
PInt == PtrVal("*int", IntB, 0)
PCounter == PtrVal("*Counter", CounterB, 0)
Chans == SliceVal("[]chan int", ChanB, 0, 3, 3)
ChanMap == MapVal("map[string]chan int", ChanMapB)
Counters == SliceVal("[]Counter", CountersB, 0, 1, 1)
PtrMap == MapVal("map[string]*any", PtrMapB)

\* What an any cell of the source may hold.
CellVals == { NilIface("any"), Seven, Box(Sub), Box(Full), Box(TheMap), Box(PElem), Box(PN1) }
FewCellVals == { NilIface("any"), Seven, Box(Sub), Box(Full) }

\* The slices of element type Elem(t) over the scalar backing array, with
\* the nil slice and the empty slice of capacity 0.
ScalarSlices(t) ==
    { Zero(t), Empty(t) } \cup
    { v \in { SliceVal(t, ScalarB, o, n, c) : o \in 0..1, n \in 0..MaxLen, c \in 1..ScalarCap } :
          v.n <= v.c /\ v.o + v.c <= ScalarCap }

AnySlices == { Zero("[]any"), Empty("[]any"), SubEmpty, Sub, Full }

Input(t, v, c0, c1, mv, nx1, st) ==
    [T |-> t, src |-> v, c0 |-> c0, c1 |-> c1, mv |-> mv, nx1 |-> nx1, st |-> st]
Plain(t, v) == Input(t, v, Seven, NilIface("any"), Seven, Zero("*Node"), "int")

\* Graphs over any cells: slices of different length over one backing array,
\* a pointer to its first element, a map and a pointer, in any arrangement.
AnyGraphInputs ==
    { Input("[]any", Full, c0, c1, mv, Zero("*Node"), "int") :
          c0 \in CellVals, c1 \in CellVals, mv \in CellVals }

\* TestCloneSharedSliceReference, TestCloneSliceSubSliceAliasing
TwoSlicesInputs ==
    { Input("TwoSlices", StructVal("TwoSlices", << a, b >>), c0, c1, Seven, Zero("*Node"), "int") :
          a \in AnySlices, b \in AnySlices, c0 \in FewCellVals, c1 \in FewCellVals }

\* TestCloneSharedMapReference
TwoMapsInputs ==
    { Input("TwoMaps", StructVal("TwoMaps", << a, b >>), Seven, c1, mv, Zero("*Node"), "int") :
          a \in { Zero("map[string]any"), TheMap, EmptyMap },
          b \in { Zero("map[string]any"), TheMap, EmptyMap },
          c1 \in { NilIface("any"), Box(TheMap) },
          mv \in CellVals }

\* TestConcurrentClonePointerGraph
GraphInputs ==
    { Plain("Graph", StructVal("Graph", << a, b >>)) :
          a \in { Zero("*int"), PInt }, b \in { Zero("*int"), PInt } }

\* TestCloneCircularReference, examples/circular
NodeInputs ==
    { Input(t, v, Seven, NilIface("any"), Seven, nx1, "int") :
          t \in { "*Node" }, v \in { Zero("*Node"), PN1, PN2 },
          nx1 \in { Zero("*Node"), PN1, PN2 } }
    \cup
    { Input("any", Box(PN1), Seven, NilIface("any"), Seven, nx1, "int") :
          nx1 \in { Zero("*Node"), PN1, PN2 } }
    \cup
    { Input("Node", StructVal("Node", << IntVal("int", 3), nx >>), Seven, NilIface("any"),
            Seven, nx1, "int") :
          nx \in { Zero("*Node"), PN1 }, nx1 \in { Zero("*Node"), PN1, PN2 } }

\* TestCloneSlices: scalar slices at top level, on the fast path ([]int) and
\* through the walker ([]int8), and as struct fields.
ScalarSliceInputs ==
    { Input(v.t, v, Seven, NilIface("any"), Seven, Zero("*Node"), Elem(v.t)) :
          v \in ScalarSlices("[]int") \cup ScalarSlices("[]int8") }
    \cup
    { Plain("any", Box(v)) : v \in ScalarSlices("[]int") }
    \cup
    { Plain("TwoInts", StructVal("TwoInts", << a, b >>)) :
          a \in ScalarSlices("[]int"), b \in ScalarSlices("[]int") }

\* TestClonePrimitives, TestCloneMaps, TestCloneEdgeCases
SimpleInputs ==
    { Plain("int", IntVal("int", 42)), Plain("string", StrVal(<< "hello" >>)),
      Plain("any", Box(IntVal("int", 42))), Plain("any", NilIface("any")),
      Plain("any", Box(Zero("*int"))), Plain("*int", Zero("*int")), Plain("*int", PInt),
      Plain("*any", Zero("*any")), Plain("*any", PElem),
      Plain("[]any", Zero("[]any")), Plain("[]any", Empty("[]any")),
      Plain("map[string]any", Zero("map[string]any")), Plain("map[string]any", EmptyMap),
      Plain("map[string]any", TheMap),
      Plain("map[string]int", Zero("map[string]int")),
      Plain("map[string]int", MapVal("map[string]int", IntMapB)),
      Plain("map[string]int", MapVal("map[string]int", EmptyIntMapB)),
      Plain("any", Box(MapVal("map[string]int", IntMapB))),
      Plain("[1]any", ArrayVal("[1]any", << Box(Full) >>)),
      Plain("[1]any", ArrayVal("[1]any", << NilIface("any") >>)) }

\* TestCloneableInterface, TestCloneCloneableReturnsWrongType, examples/custom
CloneableInputs ==
    { Plain("Counter", CounterMain), Plain("any", Box(CounterMain)),
      Plain("*Counter", PtrVal("*Counter", CounterB, 0)), Plain("*Counter", Zero("*Counter")),
      Plain("any", Box(PtrVal("*Counter", CounterB, 0))),
      Plain("*WrongTypeCloneable", PtrVal("*WrongTypeCloneable", WrongB, 0)),
      Plain("*WrongTypeCloneable", Zero("*WrongTypeCloneable")),
      Plain("any", Box(PtrVal("*WrongTypeCloneable", WrongB, 0))),
      Plain("WrongTypeCloneable", StructVal("WrongTypeCloneable", << StrVal(<< "test" >>) >>)) }

\* A struct with one field of every kind the walker clones.
HolderInputs ==
    { Plain("Holder", StructVal("Holder", << p, s, m, i, ArrayVal("[1]any", << a >>), n >>)) :
          p \in { Zero("*Node"), PN1 },
          s \in { Zero("[]any"), Empty("[]any"), Sub },
          m \in { Zero("map[string]any"), TheMap, EmptyMap },
          i \in { NilIface("any"), Box(PElem), Box(Full), Box(Empty("[]*int")) },
          a \in { NilIface("any"), Box(Sub) },
          n \in { Zero("[]int"), Empty("[]int"), SliceVal("[]int", ScalarB, 0, 2, 3) } }

\* TestCloneEdgeCases/channel types, TestCloneChannelViaReflection,
\* TestCloneFuncViaReflection, TestCloneUnsafePointer,
\* TestCloneUnexportedComplexFields: channels, funcs and unsafe pointers at
\* top level, in interfaces, as elements and as struct fields, beside
\* unexported fields.
OpaqueVals ==
    { NilChan, Unbuffered, Buffered, TheFunc, Zero("func() int"), UnsafeInt,
      Zero("unsafe.Pointer"), Chans, ChanMap,
      ArrayVal("[1]chan int", << Buffered >>) }

OpaqueInputs ==
    { Plain(v.t, v) : v \in OpaqueVals }
    \cup
    { Plain("any", Box(v)) : v \in OpaqueVals }
    \cup
    { Plain("WithOpaque", StructVal("WithOpaque", << ch, fn, ptr, val, hidden, count >>)) :
          ch \in { NilChan, Unbuffered, Buffered },
          fn \in { Zero("func() int"), TheFunc },
          ptr \in { Zero("unsafe.Pointer"), UnsafeInt },
          val \in { NilIface("any"), Box(Buffered), Box(TheFunc), Box(UnsafeInt) },
          hidden \in { Zero("[]int"), Empty("[]int"), SliceVal("[]int", ScalarB, 0, 2, 3) },
          count \in { IntVal("int", 0), IntVal("int", 5) } }

\* Values of Cloneable types below the top level: as a struct field, behind a
\* pointer, in an interface and as a slice element.
NestedCloneableInputs ==
    { Plain("Wrapper", StructVal("Wrapper", << CounterMain, pc, i, cs >>)) :
          pc \in { Zero("*Counter"), PCounter },
          i \in { NilIface("any"), Box(CounterMain), Box(PCounter) },
          cs \in { Zero("[]Counter"), Counters } }
    \cup
    { Plain("[]Counter", Counters) }

\* TestCloneStructFieldTypeConversion: a struct within a struct.
NestedStructInputs ==
    { Plain("Outer", StructVal("Outer", << StructVal("Inner", << IntVal("int", 42) >>) >>)),
      Plain("Inner", StructVal("Inner", << IntVal("int", 42) >>)) }

\* TestCloneEdgeCases/map with nil values: a map of pointers with a nil and a
\* non-nil value, alone and in a struct beside the slice its pointer points
\* into.
MapOfPointersInputs ==
    { Plain("map[string]*any", PtrMap), Plain("map[string]*any", Zero("map[string]*any")) }
    \cup
    { Plain("Registry", StructVal("Registry", << s, m >>)) :
          s \in { Zero("[]any"), Sub, Full },
          m \in { Zero("map[string]*any"), PtrMap } }

\* A pointer to an array beside slices of that array: alone, with the array
\* holding a slice of itself and the pointer (arr[0] = arr[:1], arr[1] = p),
\* and as a struct field before and after slices of the array.
ArrayPointerInputs ==
    { Plain("*[2]any", Zero("*[2]any")), Plain("*[2]any", PArr),
      Input("*[2]any", PArr, Box(Sub), Box(PArr), Seven, Zero("*Node"), "int"),
      Plain("ArrHolder", StructVal("ArrHolder", << PArr, Box(Full), Box(Sub) >>)),
      Plain("ArrPair", StructVal("ArrPair", << Box(Full), PArr >>)),
      Plain("ArrPair", StructVal("ArrPair", << Box(Sub), PArr >>)) }

\* The goroutines and cacheMutex.  cur is the goroutine whose call the other
\* variables describe and parked holds the calls of the others; pc is the
\* position of cur inside getStructTypeInfo and got the descriptors it
\* returned to cur; readers, writer and waiting are the holders of the read
\* lock, the holder of the write lock (none if empty) and the callers blocked
\* in Lock; ids gives each cached descriptor its identity (the pointer stored in
\* structCache) and info is the descriptor cur holds; inserts counts the insertions per type since the cache was
\* last reset, walked is the set of struct types some goroutine got a
\* descriptor for, rpc is the position of the goroutine calling ResetCache
\* and resets the number of ResetCache calls completed.
Resetter == 0
OneGoroutine ==
    [ cur |-> 1, parked |-> << >>, pc |-> "run", got |-> {}, info |-> << >>,
      readers |-> {}, writer |-> {}, waiting |-> {},
      ids |-> << >>, nextId |-> 1, inserts |-> << >>, walked |-> {},
      rpc |-> "idle", resets |-> 0 ]

\* The caller's record: calls is the number of Clone calls begun, again says
\* the running call was given the previous call's result, cache0 is
\* structCache as the running call found it, dropped is the number of entries
\* ResetCache removed right before the running call, called is the set of
\* struct types the running call handed to cloneStruct and walked the same
\* set accumulated since the last ResetCache.
NoHistory ==
    [ calls |-> 1, again |-> FALSE, dropped |-> 0,
      cache0 |-> [t \in {} |-> ComputeStructTypeInfo(t)],
      called |-> {}, walked |-> {} ]

Inputs ==
    AnyGraphInputs \cup TwoSlicesInputs \cup TwoMapsInputs \cup GraphInputs \cup NodeInputs
    \cup ScalarSliceInputs \cup SimpleInputs \cup CloneableInputs \cup HolderInputs
    \cup OpaqueInputs \cup NestedCloneableInputs \cup NestedStructInputs
    \cup MapOfPointersInputs \cup ArrayPointerInputs

Init ==
    \E in \in Inputs :
        /\ heap = SrcHeap(in.c0, in.c1, in.mv, in.nx1, in.st)
        /\ T = in.T
        /\ src = in.src
        /\ phase = "start"
        /\ mode = "call"
        /\ arg = Invalid
        /\ ret = Invalid
        /\ stack = << >>
        /\ visited = [a \in {} |-> Invalid]
        /\ result = Invalid
        /\ structCache = [t \in {} |-> ComputeStructTypeInfo(t)]
        /\ hookCalls = 0
        /\ walkCalls = 0
        /\ hist = NoHistory
        /\ conc = OneGoroutine

Next ==
    \/ ClonePrimitive
    \/ CloneFastSlice
    \/ CloneFastMap
    \/ CloneInvalid
    \/ CloneCloneable
    \/ CloneCloneablePanics
    \/ CloneNilPointer
    \/ CloneReflect
    \/ CloneValueLeaf
    \/ CloneChan
    \/ ClonePointer
    \/ ClonePointerReturn
    \/ CloneSlice
    \/ CloneSliceReturn
    \/ CloneMap
    \/ CloneMapKeyReturn
    \/ CloneMapValueReturn
    \/ CloneStruct
    \/ CloneStructReturn
    \/ CloneArray
    \/ CloneArrayReturn
    \/ CloneInterface
    \/ CloneInterfaceReturn
    \/ CloneReturn

Spec == Init /\ [][Next]_vars

----------------------------------------------------------------------------
(* A caller that makes several calls, one after the other *)

\* The state in which every Clone call begins: a fresh cloneContext and
\* nothing returned yet.
Restart ==
    /\ phase' = "start"
    /\ mode' = "call"
    /\ arg' = Invalid
    /\ ret' = Invalid
    /\ stack' = << >>
    /\ visited' = [a \in {} |-> Invalid]
    /\ result' = Invalid
    /\ hookCalls' = 0
    /\ walkCalls' = 0

\* Clone(Clone(x)): the value a call returned is passed to Clone again.
CloneAgain ==
    /\ phase = "done"
    /\ hist.calls = 1
    /\ src' = result
    /\ Restart
    /\ hist' = [hist EXCEPT !.calls = 2, !.again = TRUE, !.dropped = 0,
                            !.cache0 = structCache, !.called = {}]
    /\ UNCHANGED << heap, T, structCache, conc >>

\* TestCacheStats, TestCacheStatsIdempotent, TestResetCache: struct values
\* cloned one after the other, of a type with one field, of a type holding
\* another struct type, of a type with a Clone method and of a type whose
\* fields hold values of a third type.
CacheInputs ==
    NestedStructInputs
    \cup { Plain("Counter", CounterMain) }
    \cup { Plain("Wrapper", StructVal("Wrapper",
              << CounterMain, Zero("*Counter"), NilIface("any"), Zero("[]Counter") >>)) }

\* The caller, after a call that returned or whose panic it recovered, calls
\* Clone on a new value; structCache is a package variable and is kept.
NextCall ==
    /\ phase \in {"done", "panic"}
    /\ hist.calls < MaxCalls
    /\ \E in \in CacheInputs :
           /\ heap' = SrcHeap(in.c0, in.c1, in.mv, in.nx1, in.st)
           /\ T' = in.T
           /\ src' = in.src
    /\ Restart
    /\ hist' = [hist EXCEPT !.calls = @ + 1, !.again = FALSE, !.dropped = 0,
                            !.cache0 = structCache, !.called = {}]
    /\ UNCHANGED << structCache, conc >>

\* CacheStats(): the number of cached descriptors and the sum of their field
\* counts.
RECURSIVE SumFields(_, _)
SumFields(cache, ts) ==
    IF ts = {} THEN 0
    ELSE LET t == CHOOSE x \in ts : TRUE
         IN  Len(cache[t].actions) + SumFields(cache, ts \ {t})

CacheStats(cache) ==
    [ entries |-> Cardinality(DOMAIN cache), fields |-> SumFields(cache, DOMAIN cache) ]

\* ResetCache(), called by the caller before a call of Clone: the cache is
\* emptied.
ResetCache ==
    /\ phase = "start"
    /\ structCache' = [t \in {} |-> ComputeStructTypeInfo(t)]
    /\ hist' = [hist EXCEPT !.cache0 = structCache', !.walked = {},
                            !.dropped = @ + Cardinality(DOMAIN structCache)]
    /\ UNCHANGED << heap, T, src, conc, phase, mode, arg, ret, stack, visited, result,
                    hookCalls, walkCalls >>

SeveralCalls ==
    \/ Next
    \/ CloneAgain
    \/ NextCall
    \/ ResetCache

CallsSpec == Init /\ [][SeveralCalls]_vars

----------------------------------------------------------------------------
(* Goroutines calling Clone at the same time *)

\* The variables of one Clone call: its arguments, its cloneContext and its
\* position.  Each goroutine has its own.
OwnCall == << T, src, phase, mode, arg, ret, stack, visited, result, hookCalls, walkCalls >>

\* The call of the running goroutine, as it is put aside when another runs.
Context ==
    [ T |-> T, src |-> src, phase |-> phase, mode |-> mode, arg |-> arg, ret |-> ret,
      stack |-> stack, visited |-> visited, result |-> result,
      hookCalls |-> hookCalls, walkCalls |-> walkCalls,
      pc |-> conc.pc, got |-> conc.got, info |-> conc.info ]

\* A call that has not begun.
NewContext(in) ==
    [ T |-> in.T, src |-> in.src, phase |-> "start", mode |-> "call", arg |-> Invalid,
      ret |-> Invalid, stack |-> << >>, visited |-> [a \in {} |-> Invalid],
      result |-> Invalid, hookCalls |-> 0, walkCalls |-> 0,
      pc |-> "run", got |-> {}, info |-> << >> ]

\* The call has ended: it returned, panicked or exhausted the stack.
Ended(ph) == ph \in {"done", "panic", "overflow"}

\* The scheduler puts the running goroutine aside and runs goroutine g.
\* Between two operations on cacheMutex a goroutine reads the source, which
\* nobody writes, and writes its own cloneContext and storage it allocated
\* itself, so the scheduler is let in at the operations on cacheMutex and
\* when the call has ended.
CanYield ==
    \/ Ended(phase)
    \/ phase = "walk" /\ mode = "call" /\ arg.k = "Struct"

SwitchTo(g) ==
    /\ CanYield
    /\ g \in DOMAIN conc.parked
    /\ LET c == conc.parked[g]
       IN  /\ ~Ended(c.phase)
           /\ T' = c.T
           /\ src' = c.src
           /\ phase' = c.phase
           /\ mode' = c.mode
           /\ arg' = c.arg
           /\ ret' = c.ret
           /\ stack' = c.stack
           /\ visited' = c.visited
           /\ result' = c.result
           /\ hookCalls' = c.hookCalls
           /\ walkCalls' = c.walkCalls
           /\ conc' = [conc EXCEPT
                          !.cur = g,
                          !.parked = [h \in (DOMAIN conc.parked \ {g}) \cup {conc.cur} |->
                                         IF h = conc.cur THEN Context ELSE conc.parked[h]],
                          !.pc = c.pc, !.got = c.got, !.info = c.info]
    /\ UNCHANGED << heap, structCache, hist >>

Switch == \E g \in 1..NumGoroutines : SwitchTo(g)

\* The running goroutine is in cloneStruct, at position p of its call of
\* getStructTypeInfo(v.Type()).
InGetInfo(p) == phase = "walk" /\ mode = "call" /\ arg.k = "Struct" /\ conc.pc = p

\* sync.RWMutex: RLock succeeds when no writer holds the lock and none is
\* blocked in Lock; Lock succeeds when nobody holds the lock.
MayRLock == conc.writer = {} /\ conc.waiting = {}
MayLock == conc.writer = {} /\ conc.readers = {}

\* The descriptor handed to a caller: the type, the identity of the
\* structTypeInfo, its contents and the return statement that handed it out
\* (after the first lookup, after the second, or after the store).
Handed(t, id, info, how) == [t |-> t, id |-> id, info |-> info, how |-> how]

\* cacheMutex.RLock()
GetInfoRLock ==
    /\ InGetInfo("run")
    /\ MayRLock
    /\ conc' = [conc EXCEPT !.readers = @ \cup {conc.cur}, !.pc = "rlocked"]
    /\ UNCHANGED << heap, structCache, hist, OwnCall >>

\* The first lookup finds the type: RUnlock and return info.
GetInfoReadHit ==
    /\ InGetInfo("rlocked")
    /\ arg.t \in DOMAIN structCache
    /\ conc' = [conc EXCEPT !.readers = @ \ {conc.cur}, !.pc = "got",
                            !.info = structCache[arg.t],
                            !.got = @ \cup {Handed(arg.t, conc.ids[arg.t], structCache[arg.t], "read")},
                            !.walked = @ \cup {arg.t}]
    /\ UNCHANGED << heap, structCache, hist, OwnCall >>

\* getStructTypeInfo that goes on to Lock without RUnlock after a miss.
GetInfoReadMissKeepsRLock ==
    /\ InGetInfo("rlocked")
    /\ arg.t \notin DOMAIN structCache
    /\ conc' = [conc EXCEPT !.pc = "missed"]
    /\ UNCHANGED << heap, structCache, hist, OwnCall >>

\* The first lookup misses: RUnlock.
GetInfoReadMiss ==
    /\ InGetInfo("rlocked")
    /\ arg.t \notin DOMAIN structCache
    /\ conc' = [conc EXCEPT !.readers = @ \ {conc.cur}, !.pc = "missed"]
    /\ UNCHANGED << heap, structCache, hist, OwnCall >>

\* cacheMutex.Lock() is called: the caller waits for the lock.
GetInfoLock ==
    /\ InGetInfo("missed")
    /\ conc' = [conc EXCEPT !.waiting = @ \cup {conc.cur}, !.pc = "locking"]
    /\ UNCHANGED << heap, structCache, hist, OwnCall >>

\* cacheMutex.Lock() returns.
GetInfoLocked ==
    /\ InGetInfo("locking")
    /\ MayLock
    /\ conc' = [conc EXCEPT !.writer = {conc.cur}, !.waiting = @ \ {conc.cur},
                            !.pc = "locked"]
    /\ UNCHANGED << heap, structCache, hist, OwnCall >>

\* getStructTypeInfo whose second lookup, on a hit, hands out a descriptor
\* built by the caller instead of the stored one.
GetInfoRecheckBuildsOwn ==
    /\ InGetInfo("locked")
    /\ arg.t \in DOMAIN structCache
    /\ conc' = [conc EXCEPT !.pc = "unlocking",
                            !.info = ComputeStructTypeInfo(arg.t),
                            !.got = @ \cup {Handed(arg.t, conc.nextId, ComputeStructTypeInfo(arg.t), "recheck")},
                            !.nextId = @ + 1,
                            !.walked = @ \cup {arg.t}]
    /\ UNCHANGED << heap, structCache, hist, OwnCall >>

\* The second lookup, under the write lock, finds the type.
GetInfoRecheckHit ==
    /\ InGetInfo("locked")
    /\ arg.t \in DOMAIN structCache
    /\ conc' = [conc EXCEPT !.pc = "unlocking",
                            !.info = structCache[arg.t],
                            !.got = @ \cup {Handed(arg.t, conc.ids[arg.t], structCache[arg.t], "recheck")},
                            !.walked = @ \cup {arg.t}]
    /\ UNCHANGED << heap, structCache, hist, OwnCall >>

\* getStructTypeInfo without the second lookup: whoever takes the write lock
\* computes and stores a descriptor.
GetInfoStoreUnchecked ==
    /\ InGetInfo("locked")
    /\ structCache' = (arg.t :> ComputeStructTypeInfo(arg.t)) @@ structCache
    /\ conc' = [conc EXCEPT !.pc = "unlocking",
                            !.info = ComputeStructTypeInfo(arg.t),
                            !.got = @ \cup {Handed(arg.t, conc.nextId, ComputeStructTypeInfo(arg.t), "store")},
                            !.ids = (arg.t :> conc.nextId) @@ @,
                            !.nextId = @ + 1,
                            !.inserts = (arg.t :> (IF arg.t \in DOMAIN @ THEN @[arg.t] ELSE 0) + 1) @@ @,
                            !.walked = @ \cup {arg.t}]
    /\ UNCHANGED << heap, hist, OwnCall >>

\* The second lookup misses: the descriptor is computed and stored.
GetInfoStore ==
    /\ InGetInfo("locked")
    /\ arg.t \notin DOMAIN structCache
    /\ structCache' = CacheAfter(structCache, arg.t)
    /\ conc' = [conc EXCEPT !.pc = "unlocking",
                            !.info = ComputeStructTypeInfo(arg.t),
                            !.got = @ \cup {Handed(arg.t, conc.nextId, ComputeStructTypeInfo(arg.t), "store")},
                            !.ids = (arg.t :> conc.nextId) @@ @,
                            !.nextId = @ + 1,
                            !.inserts = (arg.t :> (IF arg.t \in DOMAIN @ THEN @[arg.t] ELSE 0) + 1) @@ @,
                            !.walked = @ \cup {arg.t}]
    /\ UNCHANGED << heap, hist, OwnCall >>

\* The deferred cacheMutex.Unlock() as getStructTypeInfo returns.
GetInfoUnlock ==
    /\ InGetInfo("unlocking")
    /\ conc' = [conc EXCEPT !.writer = {}, !.pc = "got"]
    /\ UNCHANGED << heap, structCache, hist, OwnCall >>

\* cloneStruct that reads the descriptor from structCache after
\* getStructTypeInfo has returned: a missing entry is a nil *structTypeInfo.
CloneStructRereadsCache ==
    /\ InGetInfo("got")
    /\ Entered
    /\ IF arg.t \in DOMAIN structCache
       THEN LET structInfo == structCache[arg.t]
                j == NextCloneField(structInfo, 1)
                newStruct == CopyFields(Zero(arg.t), arg, structInfo, 1, j)
            IN  IF j > Len(structInfo.actions)
                THEN Returns(newStruct)
                ELSE Calls(Frame("cloneStruct", arg, j, 0, newStruct, << >>), arg.e[j])
       ELSE Panics
    /\ conc' = [conc EXCEPT !.pc = "run"]
    /\ UNCHANGED << heap, T, src, hist, visited, result, structCache, hookCalls >>

\* cloneStruct from the return of getStructTypeInfo up to its first
\* recursive call.
CloneStructWithInfo ==
    /\ InGetInfo("got")
    /\ Entered
    /\ LET structInfo == conc.info
           j == NextCloneField(structInfo, 1)
           newStruct == CopyFields(Zero(arg.t), arg, structInfo, 1, j)
       IN  IF j > Len(structInfo.actions)
           THEN Returns(newStruct)
           ELSE Calls(Frame("cloneStruct", arg, j, 0, newStruct, << >>), arg.e[j])
    /\ conc' = [conc EXCEPT !.pc = "run"]
    /\ UNCHANGED << heap, T, src, hist, visited, result, structCache, hookCalls >>

\* ResetCache() is called: the caller waits for the write lock.  Like the
\* scheduler, the goroutine calling ResetCache is let in where the running
\* goroutine can yield.
ResetLock ==
    /\ CanYield
    /\ conc.rpc = "idle"
    /\ conc.resets < MaxResets
    /\ conc' = [conc EXCEPT !.waiting = @ \cup {Resetter}, !.rpc = "locking"]
    /\ UNCHANGED << heap, structCache, hist, OwnCall >>

ResetLocked ==
    /\ CanYield
    /\ conc.rpc = "locking"
    /\ MayLock
    /\ conc' = [conc EXCEPT !.writer = {Resetter}, !.waiting = @ \ {Resetter},
                            !.rpc = "locked"]
    /\ UNCHANGED << heap, structCache, hist, OwnCall >>

\* ResetCache() empties the cache under the write lock.
ResetClear ==
    /\ CanYield
    /\ conc.rpc = "locked"
    /\ structCache' = [t \in {} |-> ComputeStructTypeInfo(t)]
    /\ conc' = [conc EXCEPT !.ids = << >>, !.inserts = << >>, !.rpc = "unlocking"]
    /\ UNCHANGED << heap, hist, OwnCall >>

ResetUnlock ==
    /\ CanYield
    /\ conc.rpc = "unlocking"
    /\ conc' = [conc EXCEPT !.writer = {}, !.rpc = "idle", !.resets = @ + 1]
    /\ UNCHANGED << heap, structCache, hist, OwnCall >>

\* TestCacheConcurrentAccess, TestConcurrentCloneWithCacheContention,
\* TestConcurrentCloneIndependence: what the goroutines clone.  A struct
\* holding a struct, that inner struct alone, a chain of two nodes of one
\* type, a map, and a struct holding a slice and a map of pointers into it;
\* two goroutines may be given the same value.
ConcInputs ==
    << Plain("Outer", StructVal("Outer", << StructVal("Inner", << IntVal("int", 42) >>) >>)),
       Plain("Inner", StructVal("Inner", << IntVal("int", 42) >>)),
       Plain("*Node", PN2),
       Plain("map[string]any", TheMap),
       Plain("Registry", StructVal("Registry", << Sub, PtrMap >>)) >>

\* The goroutines are alike: they are numbered in the order of ConcInputs.
ConcInit ==
    /\ \E ins \in [1..NumGoroutines -> 1..Len(ConcInputs)] :
           /\ \A g \in 1..(NumGoroutines - 1) : ins[g] <= ins[g + 1]
           /\ heap = SrcHeap(ConcInputs[ins[1]].c0, ConcInputs[ins[1]].c1, ConcInputs[ins[1]].mv,
                             ConcInputs[ins[1]].nx1, ConcInputs[ins[1]].st)
           /\ T = ConcInputs[ins[1]].T
           /\ src = ConcInputs[ins[1]].src
           /\ conc = [OneGoroutine EXCEPT
                         !.parked = [g \in 2..NumGoroutines |-> NewContext(ConcInputs[ins[g]])]]
    /\ phase = "start"
    /\ mode = "call"
    /\ arg = Invalid
    /\ ret = Invalid
    /\ stack = << >>
    /\ visited = [a \in {} |-> Invalid]
    /\ result = Invalid
    /\ structCache = [t \in {} |-> ComputeStructTypeInfo(t)]
    /\ hookCalls = 0
    /\ walkCalls = 0
    /\ hist = NoHistory

\* A step of the running goroutine, of the scheduler or of ResetCache.
ConcNext ==
    \/ CloneReflect
    \/ CloneValueLeaf
    \/ ClonePointer
    \/ ClonePointerReturn
    \/ CloneSlice
    \/ CloneSliceReturn
    \/ CloneMap
    \/ CloneMapKeyReturn
    \/ CloneMapValueReturn
    \/ CloneInterface
    \/ CloneInterfaceReturn
    \/ GetInfoRLock
    \/ GetInfoReadHit
    \/ GetInfoReadMiss
    \/ GetInfoLock
    \/ GetInfoLocked
    \/ GetInfoRecheckHit
    \/ GetInfoStore
    \/ GetInfoUnlock
    \/ CloneStructWithInfo
    \/ CloneStructReturn
    \/ CloneReturn
    \/ Switch
    \/ ResetLock
    \/ ResetLocked
    \/ ResetClear
    \/ ResetUnlock

ConcSpec == ConcInit /\ [][ConcNext]_vars

\* A step of the running goroutine's Clone call.
GoroutineStep ==
    \/ CloneReflect
    \/ CloneValueLeaf
    \/ ClonePointer
    \/ ClonePointerReturn
    \/ CloneSlice
    \/ CloneSliceReturn
    \/ CloneMap
    \/ CloneMapKeyReturn
    \/ CloneMapValueReturn
    \/ CloneInterface
    \/ CloneInterfaceReturn
    \/ GetInfoRLock
    \/ GetInfoReadHit
    \/ GetInfoReadMiss
    \/ GetInfoLock
    \/ GetInfoLocked
    \/ GetInfoRecheckHit
    \/ GetInfoStore
    \/ GetInfoUnlock
    \/ CloneStructWithInfo
    \/ CloneStructReturn
    \/ CloneReturn

\* A step of a ResetCache call that has begun.
ResetStep == ResetLocked \/ ResetClear \/ ResetUnlock

\* Fair scheduling: every goroutine whose call has not ended is scheduled, a
\* goroutine that can run again and again gets to run, and a Lock that can
\* succeed again and again does succeed (sync.RWMutex hands the lock to a
\* blocked writer and keeps new readers out meanwhile).  Nothing obliges
\* anyone to call ResetCache.
ConcFairSpec ==
    /\ ConcSpec
    /\ \A g \in 1..NumGoroutines : WF_vars(SwitchTo(g))
    /\ SF_vars(GoroutineStep)
    /\ SF_vars(ResetStep)

----------------------------------------------------------------------------
(* The source graph and its clone, compared *)

IsRef(v) == v.k \in {"Ptr", "Slice", "Map"} /\ v.b # 0

\* The pointers, slices and maps held directly in v: in its fields, its
\* elements and the interfaces among them.
RECURSIVE Refs(_)
Refs(v) ==
    (IF IsRef(v) THEN {v} ELSE {}) \cup UNION { Refs(v.e[i]) : i \in 1..Len(v.e) }

\* The storage a pointer, slice or map gives access to: the cell pointed to
\* (the cells of the array pointed to), the cells within the capacity of the
\* slice, the map (cell 0 of its block).
CellsOf(r) ==
    CASE r.k = "Ptr" /\ IsArrayPtr(r.t) ->
             { << r.b, i >> : i \in (r.o + 1)..(r.o + ArrayLen(Elem(r.t))) }
      [] r.k = "Ptr" -> { << r.b, r.o + 1 >> }
      [] r.k = "Slice" -> { << r.b, i >> : i \in (r.o + 1)..(r.o + r.c) }
      [] OTHER -> { << r.b, 0 >> }

\* The values stored in a cell; for a map its keys and values.
Contents(h, cell) ==
    IF cell[2] = 0
    THEN { h[cell[1]].keys[i] : i \in 1..Len(h[cell[1]].keys) }
         \cup { h[cell[1]].cells[i] : i \in 1..Len(h[cell[1]].cells) }
    ELSE { h[cell[1]].cells[cell[2]] }

\* The storage reachable from the values vs, beyond the cells already seen.
RECURSIVE ReachFrom(_, _, _)
ReachFrom(h, vs, seen) ==
    LET new == UNION { CellsOf(r) : r \in UNION { Refs(v) : v \in vs } } \ seen
    IN  IF new = {} THEN seen
        ELSE ReachFrom(h, UNION { Contents(h, c) : c \in new }, seen \cup new)

Reach(h, v) == ReachFrom(h, {v}, {})

\* The value a map holds under key: the invalid value if it has none.
MapIndex(h, m, key) ==
    LET blk == h[m.b]
    IN  IF \E i \in 1..Len(blk.keys) : blk.keys[i] = key
        THEN blk.cells[CHOOSE i \in 1..Len(blk.keys) : blk.keys[i] = key]
        ELSE Invalid

Pair(s, c) == [s |-> s, c |-> c]

\* The positions right below position p, a source value and the value at the
\* same place of the clone: same exported field, same index, same key, same
\* pointee.  Unexported fields are not cloned and have no position.
Below(h, p) ==
    LET s == p.s
        c == p.c
    IN  CASE s.k # c.k \/ IsNil(s) \/ IsNil(c) -> {}
          [] s.k = "Struct" ->
                { Pair(s.e[i], c.e[i]) :
                      i \in { j \in 1..(IF Len(s.e) < Len(c.e) THEN Len(s.e) ELSE Len(c.e)) :
                                 Fields(s.t)[j].exported } }
          [] s.k = "Array" ->
                { Pair(s.e[i], c.e[i]) : i \in 1..(IF Len(s.e) < Len(c.e) THEN Len(s.e) ELSE Len(c.e)) }
          [] s.k = "Interface" -> { Pair(s.e[1], c.e[1]) }
          [] s.k = "Ptr" -> { Pair(Deref(h, s), Deref(h, c)) }
          [] s.k = "Slice" ->
                { Pair(Index(h, s, i), Index(h, c, i)) : i \in 1..(IF s.n < c.n THEN s.n ELSE c.n) }
          [] s.k = "Map" ->
                { Pair(h[s.b].cells[i], MapIndex(h, c, h[s.b].keys[i])) :
                      i \in { j \in 1..Len(h[s.b].keys) :
                                 IsValid(MapIndex(h, c, h[s.b].keys[j])) } }
          [] OTHER -> {}

RECURSIVE PositionsFrom(_, _, _)
PositionsFrom(h, frontier, seen) ==
    LET new == frontier \ seen
    IN  IF new = {} THEN seen
        ELSE PositionsFrom(h, UNION { Below(h, p) : p \in new }, seen \cup new)

\* Every position of the source graph, paired with the clone's value there.
Positions == PositionsFrom(heap, { Pair(src, result) }, {})

\* The positions strictly below p.
Under(p) == PositionsFrom(heap, Below(heap, p), {})

\* Clone returned, by whichever path.
Done == phase = "done"

\* The storage of the source: its blocks are the first NSrc of the heap.
IsSourceCell(cell) == cell[1] <= NSrc
\* Two slices share their backing storage.
SameBacking(a, b) == Pointer(a) = Pointer(b)

\* A slice whose elements are scalars: integers or strings.
ScalarElems(v) == v.k = "Slice" /\ Kind(Elem(v.t)) \in {"Int", "String"}

\* A nil pointer, nil slice, nil map or nil interface.
NilValue(v) == v.k \in {"Ptr", "Slice", "Map", "Interface"} /\ IsNil(v)

----------------------------------------------------------------------------
(* The claims *)

\* C1: every Clone call on a finite source graph terminates: the walker
\* never recurses without end and so never exhausts the goroutine stack.
C1_CloneTerminates == phase # "overflow"

\* C2: no step of the walker panics: once ctx.cloneValue has been entered,
\* no reflect call made for an assignment or for the length or capacity of
\* a visited-table entry aborts the call.
C2_WalkerNeverPanics == ~(phase = "panic" /\ walkCalls > 0)

\* C3: after Clone returned, no storage (pointer target, slice backing
\* array, map) reachable from the clone is reachable from the source.
C3_CloneIndependent == Done => Reach(heap, result) \cap Reach(heap, src) = {}

\* The clone of a Holder whose pointer, slices and map are all non-nil.
C3_Witness ==
    /\ Done /\ T = "Holder" /\ walkCalls > 0
    /\ \A i \in {1, 2, 3, 6} : ~IsNil(src.e[i])
    /\ Reach(heap, src) # {}
    /\ Cardinality(Reach(heap, result)) >= 4

\* C4: cycles are reproduced: when edges below a pointer, slice or map of
\* the source lead back to that same pointer, slice or map, the same edges
\* below its clone lead back to that clone, never to a second copy.
C4_CyclesReproduced ==
    Done => \A p \in Positions :
                IsRef(p.s) => \A q \in Under(p) : q.s = p.s => q.c = p.c

\* C5: every arrival at the same non-nil source pointer, and every arrival
\* at the same non-nil source map, yields the identical clone.
C5_SharedPointerOrMap ==
    Done => \A p, q \in Positions :
                (p.s.k \in {"Ptr", "Map"} /\ ~IsNil(p.s) /\ q.s = p.s) => q.c = p.c

\* C6: any two occurrences of the same slice (same backing storage, length
\* and capacity) clone to slices sharing one backing storage, whatever is
\* walked between them.  Stated for the slices the walker tracks (elements
\* that are pointers, interfaces, slices, maps or structs): the claim covers
\* every element type, so it fails where this does.
C6_SharedSlice ==
    Done => \A p, q \in Positions :
                (p.s.k = "Slice" /\ ~IsNil(p.s) /\ NeedsTracking(p.s.t) /\ q.s = p.s)
                    => (p.c.k = "Slice" /\ q.c.k = "Slice" /\ SameBacking(p.c, q.c))

\* C7: the clone of a non-nil slice of scalars, at top level or anywhere in
\* the graph, has the length, the capacity and the elements of the source,
\* and none of its cells is a cell of the source.
C7_ScalarSliceExact ==
    Done => \A p \in Positions :
                (ScalarElems(p.s) /\ ~IsNil(p.s)) =>
                    /\ p.c.k = "Slice" /\ ~IsNil(p.c)
                    /\ p.c.n = p.s.n /\ p.c.c = p.s.c
                    /\ \A i \in 1..p.s.n : Index(heap, p.c, i) = Index(heap, p.s, i)
                    /\ \A cell \in CellsOf(p.c) : ~IsSourceCell(cell)

\* A struct of two []int fields cloned by the walker, the first a slice
\* with spare capacity; its clone has a backing array of its own.
C7_Witness ==
    /\ Done /\ T = "TwoInts" /\ walkCalls > 0
    /\ src.e[1].n >= 1 /\ src.e[1].c > src.e[1].n
    /\ result.e[1].c = src.e[1].c
    /\ result.e[1].b > NSrc

\* C8: a nil pointer, slice, map or interface clones to the nil of its type:
\* as the argument of Clone the call returns it, and at every position of
\* a cloned graph the clone holds it.
C8_NilClonesToNil ==
    /\ (NilValue(src) /\ phase \notin {"start", "walk"}) => (Done /\ result = src)
    /\ Done => \A p \in Positions : NilValue(p.s) => p.c = p.s

\* C9: a non-nil slice of length 0 clones to a non-nil slice of length 0 and
\* the same capacity, a non-nil map without entries to a non-nil map without
\* entries, at top level and anywhere in the graph.
C9_EmptyStaysNonNil ==
    Done => \A p \in Positions :
                /\ (p.s.k = "Slice" /\ ~IsNil(p.s) /\ p.s.n = 0) =>
                       (p.c.k = "Slice" /\ ~IsNil(p.c) /\ p.c.n = 0 /\ p.c.c = p.s.c)
                /\ (p.s.k = "Map" /\ ~IsNil(p.s) /\ LenOf(heap, p.s) = 0) =>
                       (p.c.k = "Map" /\ ~IsNil(p.c) /\ LenOf(heap, p.c) = 0)

\* A Holder with an empty []any, an empty map and an empty []int, cloned.
C9_Witness ==
    /\ Done /\ T = "Holder"
    /\ src.e[2] = Empty("[]any") /\ src.e[3] = EmptyMap /\ src.e[6] = Empty("[]int")
    /\ ~IsNil(result.e[2]) /\ ~IsNil(result.e[3]) /\ ~IsNil(result.e[6])

\* What Counter{10, "main"}.Clone() returns in examples/custom.
CounterCopy == StructVal("Counter", << IntVal("int", 11), StrVal(<< "main", "_copy" >>) >>)

\* C10: when the source implements Cloneable and its Clone method returns a
\* value assertable to T, Clone returns that value and the walker does not
\* run: Counter{10, "main"}, as a Counter or in an any, yields
\* Counter{11, "main_copy"}; a *WrongTypeCloneable held in an any yields the
\* string its Clone method returns.
C10_HookResultReturned ==
    /\ (phase # "start" /\ Dyn = CounterMain) =>
           /\ Done /\ result = AssertTo(CounterCopy, T)
           /\ hookCalls = 1 /\ walkCalls = 0
    /\ (phase # "start" /\ T = "any" /\ Dyn = PtrVal("*WrongTypeCloneable", WrongB, 0)) =>
           /\ Done /\ result = Box(StrVal(<< "not the right type" >>))
           /\ hookCalls = 1 /\ walkCalls = 0

\* Clone(Counter{10, "main"}) returned Counter{11, "main_copy"}.
C10_Witness ==
    /\ Done /\ T = "Counter" /\ src = CounterMain
    /\ result = CounterCopy /\ hookCalls = 1 /\ walkCalls = 0

\* C11: when the source implements Cloneable and its Clone method returns
\* a value that is not a T, the result of the method is discarded and Clone
\* returns the walker's copy: for a *WrongTypeCloneable (Clone returns a
\* string) and a *Counter (Clone returns a Counter), a new pointer of the
\* source's type, to storage of its own, holding equal field values.
C11_WrongTypeFallsThrough ==
    (/\ phase \notin {"start", "walk"}
     /\ T \in {"*WrongTypeCloneable", "*Counter"} /\ ~IsNil(src))
        => /\ Done /\ hookCalls = 1 /\ walkCalls > 0
           /\ result.k = "Ptr" /\ result.t = T /\ ~IsNil(result)
           /\ ~IsSourceCell(<< result.b, result.o + 1 >>)
           /\ Deref(heap, result) = Deref(heap, src)

\* Clone(&WrongTypeCloneable{Value: "test"}) returned a new pointer to a
\* struct whose Value is "test".
C11_Witness ==
    /\ Done /\ T = "*WrongTypeCloneable" /\ hookCalls = 1
    /\ result # src /\ result.k = "Ptr"
    /\ Deref(heap, result).e[1] = StrVal(<< "test" >>)

\* C12: every value of a Cloneable type that Clone copies is copied by its
\* Clone method, also below the top level: wherever a source that is not
\* itself Cloneable holds a Counter (as a struct field, a slice element, a
\* pointer target or the content of an interface), the clone holds what
\* Counter.Clone returns for it.
C12_HookAtEveryPosition ==
    (Done /\ ~ImplementsCloneable(Dyn.t))
        => \A p \in Positions : p.s.t = "Counter" => p.c = CounterClone(p.s)

\* C13: the value Clone returns has the dynamic type of src, whatever the
\* static type T (an interface type included) and also when the dynamic
\* type of src implements Cloneable.
C13_SameDynamicType ==
    Done => (result.t = T /\ ValueOf(result).t = ValueOf(src).t)

\* C14: wherever the source holds a channel (as the argument, in an
\* interface, as a slice, array or map element, in an exported struct
\* field), nil, unbuffered or buffered, the clone holds the nil channel of
\* the same type.
C14_ChannelsBecomeZero ==
    Done => \A p \in Positions : p.s.k = "Chan" => p.c = Zero(p.s.t)

\* C15: a function value or an unsafe pointer is returned unchanged wherever
\* the source holds it (as the argument, as an exported struct field, in an
\* interface): the clone holds the same code reference, the same address.
C15_FuncAndUnsafeUnchanged ==
    Done => \A p \in Positions : p.s.k \in {"Func", "UnsafePointer"} => p.c = p.s

\* A struct with a func, an unsafe pointer and a func inside an interface,
\* all non-nil, cloned.
C15_Witness ==
    /\ Done /\ T = "WithOpaque"
    /\ src.e[2] = TheFunc /\ src.e[3] = UnsafeInt /\ src.e[4] = Box(TheFunc)
    /\ result.e[2] = TheFunc /\ result.e[3] = UnsafeInt /\ result.e[4] = Box(TheFunc)

\* The keys of a map.
MapKeys(h, m) == { h[m.b].keys[i] : i \in 1..Len(h[m.b].keys) }

\* Two values agree at one position: same type, both nil or neither, same
\* length and key set, equal scalars; a channel, function or unsafe pointer, and
\* a field no clone reaches, agree when they are the same value.
SameNode(h, p) ==
    /\ p.s.t = p.c.t
    /\ p.s.k = p.c.k
    /\ IsNil(p.s) <=> IsNil(p.c)
    /\ CASE p.s.k \in {"Ptr", "Interface"} -> TRUE
         [] p.s.k = "Slice" -> p.s.n = p.c.n
         [] p.s.k = "Map" -> IsNil(p.s) \/ MapKeys(h, p.s) = MapKeys(h, p.c)
         [] p.s.k = "Array" -> Len(p.s.e) = Len(p.c.e)
         [] p.s.k = "Struct" ->
               /\ Len(p.s.e) = Len(p.c.e)
               /\ \A i \in 1..Len(p.s.e) :
                      ~Fields(p.s.t)[i].exported => p.s.e[i] = p.c.e[i]
         [] OTHER -> p.s = p.c

\* Structural equality of two values: they agree at every position.
StructurallyEqual(h, a, b) ==
    \A p \in PositionsFrom(h, { Pair(a, b) }, {}) : SameNode(h, p)

\* The positions right below p that the walker fills by cloning: of a struct
\* the exported fields with the clone action, otherwise all of them.
CloneBelow(h, p) ==
    IF p.s.k = "Struct" /\ p.c.k = "Struct" /\ p.s.t = p.c.t
    THEN { Pair(p.s.e[i], p.c.e[i]) :
               i \in { j \in 1..NumField(p.s.t) : FieldAction(Fields(p.s.t)[j]) = "cloneField" } }
    ELSE Below(h, p)

RECURSIVE ClonePositionsFrom(_, _, _)
ClonePositionsFrom(h, frontier, seen) ==
    LET new == frontier \ seen
    IN  IF new = {} THEN seen
        ELSE ClonePositionsFrom(h, UNION { CloneBelow(h, p) : p \in new }, seen \cup new)

\* The clone's value agrees with the source's at one position of a deep
\* clone: a channel is replaced by the nil channel of its type; a struct has
\* the source's type, zero unexported fields and the source's values in its
\* copied fields; every other value is of the same type and kind, nil
\* exactly if the source is, with the same length and keys, the same scalar,
\* the same function or unsafe pointer.
CloneNode(h, p) ==
    CASE p.s.k = "Chan" -> p.c = Zero(p.s.t)
      [] p.s.k = "Struct" ->
            /\ p.c.k = "Struct" /\ p.c.t = p.s.t
            /\ \A i \in 1..NumField(p.s.t) :
                   LET f == Fields(p.s.t)[i]
                   IN  IF ~f.exported THEN p.c.e[i] = Zero(f.type)
                       ELSE FieldAction(f) = "copyField" => p.c.e[i] = p.s.e[i]
      [] OTHER -> SameNode(h, p)

\* c is a deep clone of s: it agrees with s at every position below it, down
\* to the leaves, and no storage reachable from it is storage of the source.
DeepClone(h, s, c) ==
    /\ \A p \in ClonePositionsFrom(h, { Pair(s, c) }, {}) : CloneNode(h, p)
    /\ \A cell \in Reach(h, c) : ~IsSourceCell(cell)

\* C16: in the clone of any struct every unexported field holds the zero
\* value of its type, whatever the source field holds; every exported field
\* with the copy action holds the source field's value, and every exported
\* field with the clone action holds a deep clone of the source field.
C16_FieldsByAction ==
    Done =>
        \A p \in Positions :
            (p.s.k = "Struct" /\ p.c.k = "Struct" /\ p.c.t = p.s.t) =>
                \A i \in 1..NumField(p.s.t) :
                    LET f == Fields(p.s.t)[i]
                    IN  IF ~f.exported THEN p.c.e[i] = Zero(f.type)
                        ELSE IF FieldAction(f) = "cloneField"
                        THEN DeepClone(heap, p.s.e[i], p.c.e[i])
                        ELSE p.c.e[i] = p.s.e[i]

\* cloneSlice returned the visited entry found under the address of arg.
ReusedEntry ==
    /\ phase = "walk" /\ mode = "call" /\ arg.k = "Slice" /\ ~IsNil(arg)
    /\ Pointer(arg) \in DOMAIN visited
    /\ mode' = "ret" /\ ret' = visited[Pointer(arg)]

\* C18: two slices of one backing array with different lengths, both in the
\* source graph, clone to two slices that share no cell, each with the
\* length and capacity of its own source; and cloneSlice returns a visited
\* entry only if its length and capacity are those of the slice cloned.
C18_SubSliceNotConflated ==
    /\ [](Done => \A p, q \in Positions :
              (/\ p.s.k = "Slice" /\ q.s.k = "Slice" /\ ~IsNil(p.s) /\ ~IsNil(q.s)
               /\ SameBacking(p.s, q.s) /\ p.s.n # q.s.n)
                  => /\ p.c.k = "Slice" /\ q.c.k = "Slice"
                     /\ p.c.n = p.s.n /\ p.c.c = p.s.c
                     /\ CellsOf(p.c) \cap CellsOf(q.c) = {})
    /\ [][ReusedEntry => (ret'.k = "Slice" /\ ret'.n = arg.n /\ ret'.c = arg.c)]_vars

\* C17: Clone(Clone(x)) is structurally equal to Clone(x) for every x,
\* including values whose type implements Cloneable: when the second call,
\* given the first call's result, returns, its result is structurally equal
\* to its argument.
C17_CloneIdempotent ==
    (Done /\ hist.again) => StructurallyEqual(heap, src, result)

\* C17 amended: Clone(Clone(x)) is structurally equal to Clone(x) unless the
\* second call returns what the Clone method of Clone(x) returned.
C17_IdempotentWithoutHook ==
    (Done /\ hist.again /\ ~HookReturnsT) => StructurallyEqual(heap, src, result)

\* C17 witness: the second call walked a struct holding a non-empty slice and
\* returned.
C17_Witness ==
    /\ Done /\ hist.again /\ ~HookReturnsT /\ walkCalls > 2
    /\ result.k = "Struct"
    /\ \E i \in 1..Len(result.e) : result.e[i].k = "Slice" /\ result.e[i].n > 0

\* C19: invoking Clone on a value of a struct type T increases the number of
\* struct-cache entries by at most one, whatever the field types of T are, and
\* a call that walks only cached types changes neither the entry count nor
\* the field count.
C19_AtMostOneEntryPerCall ==
    (Done /\ Kind(T) = "Struct") =>
        /\ CacheStats(structCache).entries <= CacheStats(hist.cache0).entries + 1
        /\ hist.called \subseteq DOMAIN hist.cache0 =>
               CacheStats(structCache) = CacheStats(hist.cache0)

\* C19 amended: a Clone call adds exactly one entry for each struct type it
\* walks that the cache did not hold, the type of the argument and the struct
\* types below it alike; the entries the call found are left as they were, so
\* a call that walks only cached types changes neither count.
C19_OneEntryPerWalkedType ==
    /\ DOMAIN structCache = DOMAIN hist.cache0 \cup hist.called
    /\ \A t \in DOMAIN hist.cache0 : structCache[t] = hist.cache0[t]
    /\ hist.called \subseteq DOMAIN hist.cache0 =>
           CacheStats(structCache) = CacheStats(hist.cache0)

\* C19 witness: Clone of an Outer value returned, having found Inner cached
\* and Outer not.
C19_Witness ==
    /\ Done /\ T = "Outer"
    /\ hist.called = {"Outer", "Inner"}
    /\ DOMAIN hist.cache0 = {"Inner"}

\* The sum of the field counts of the struct types ts.
RECURSIVE SumNumField(_)
SumNumField(ts) ==
    IF ts = {} THEN 0
    ELSE LET t == CHOOSE x \in ts : TRUE
         IN  NumField(t) + SumNumField(ts \ {t})

\* C20: after any sequence of Clone and ResetCache calls CacheStats returns
\* the number of distinct struct types walked since the last ResetCache and the
\* sum of their field counts; right after ResetCache it returns (0, 0); and the
\* next Clone that walks a struct value ends with that type's entry in place.
C20_CacheStatsCountsWalked ==
    /\ [](CacheStats(structCache) =
             [entries |-> Cardinality(hist.walked), fields |-> SumNumField(hist.walked)])
    /\ [][ResetCache => CacheStats(structCache') = [entries |-> 0, fields |-> 0]]_vars
    /\ []((phase \in {"walk", "done", "panic"} /\ hist.dropped > 0) =>
             \A t \in hist.called :
                 t \in DOMAIN structCache /\ structCache[t] = ComputeStructTypeInfo(t))

\* C20 witness: two types were cached, ResetCache removed both, and the Clone
\* of an Inner value that followed returned with one entry of one field.
C20_Witness ==
    /\ Done /\ T = "Inner" /\ hist.dropped = 2
    /\ CacheStats(structCache) = [entries |-> 1, fields |-> 1]

\* The clonePointer calls in progress: the walker is inside their pointee.
PointerFrames == { i \in 1..Len(stack) : stack[i].fn = "clonePointer" }

\* C25: clonePointer records the new pointer in the visited table under the
\* source address before the walker descends into the pointee: whenever the
\* walker is inside a pointee, the visited table maps the address of that
\* pointee to the new pointer clonePointer allocated for it.
C25_RegisteredBeforeDescent ==
    \A i \in PointerFrames :
        /\ Pointer(stack[i].v) \in DOMAIN visited
        /\ visited[Pointer(stack[i].v)] = PtrVal(stack[i].v.t, stack[i].nb, 0)

\* C26: in every reachable state of the struct cache each descriptor has an
\* actions list and a fields list of the same length, the number of fields of
\* its type, with the fields in declaration order; and a step other than
\* ResetCache leaves every entry in place and unmodified.
C26_DescriptorsWellFormed ==
    /\ [](\A t \in DOMAIN structCache :
             /\ Len(structCache[t].actions) = Len(structCache[t].fields)
             /\ Len(structCache[t].fields) = NumField(t)
             /\ \A i \in 1..NumField(t) : structCache[t].fields[i] = Fields(t)[i])
    /\ [][~ResetCache =>
             \A t \in DOMAIN structCache :
                 t \in DOMAIN structCache' /\ structCache'[t] = structCache[t]]_vars

\* C26 witness: the cache holds the descriptor of a type with exported and
\* unexported fields beside another descriptor, during a later call.
C26_Witness ==
    /\ "WithOpaque" \in DOMAIN structCache
    /\ Cardinality(DOMAIN structCache) >= 2
    /\ hist.calls >= 2
    /\ phase = "walk"

\* The walker is about to look its argument up in the visited table and the
\* table has an entry under the argument's address.
LookupFinds ==
    /\ phase = "walk" /\ mode = "call"
    /\ arg.k \in {"Ptr", "Slice", "Map"}
    /\ ~IsNil(arg)
    /\ arg.k = "Slice" => NeedsTracking(arg.t)
    /\ Pointer(arg) \in DOMAIN visited

\* C27: whenever a lookup for a pointer, slice or map finds an entry in the
\* visited table, the entry is a clone of the same kind and type as the source
\* value being walked.
C27_HitHasSourceType ==
    LookupFinds =>
        /\ visited[Pointer(arg)].k = arg.k
        /\ visited[Pointer(arg)].t = arg.t

\* C28: Clone never writes to the source: no step of a Clone call changes a
\* block of the source's storage (pointer targets, backing arrays, maps), and
\* the argument itself, with its struct fields and array elements, stays as
\* it was passed.
C28_SourceNeverWritten ==
    [][/\ \A b \in 1..NSrc : heap'[b] = heap[b]
       /\ src' = src]_vars

\* C28 witness: the walker cloned a Holder whose pointer, slices and map
\* are non-nil, writing the clone's blocks, and returned.
C28_Witness ==
    /\ Done /\ T = "Holder" /\ walkCalls > 6 /\ hookCalls = 0
    /\ \A i \in {1, 2, 3, 6} : ~IsNil(src.e[i])
    /\ Len(heap) >= NSrc + 4
    /\ \E b \in (NSrc + 1)..Len(heap) :
           \E i \in 1..Len(heap[b].cells) : ~IsNil(heap[b].cells[i])

\* C30: the reflective clone of a non-nil map has exactly the source's
\* entries: one per source key, none dropped, and an entry whose value is a
\* nil pointer or a nil interface is kept with a nil value.
C30_MapEntriesKept ==
    (Done /\ walkCalls > 0) =>
        \A p \in Positions :
            (p.s.k = "Map" /\ ~IsNil(p.s) /\ p.c.k = "Map" /\ ~IsNil(p.c)) =>
                /\ MapKeys(heap, p.c) = MapKeys(heap, p.s)
                /\ Len(heap[p.c.b].keys) = Len(heap[p.s.b].keys)
                /\ \A i \in 1..Len(heap[p.s.b].keys) :
                       (heap[p.s.b].cells[i].k \in {"Ptr", "Interface"}
                            /\ IsNil(heap[p.s.b].cells[i])) =>
                           IsNil(MapIndex(heap, p.c, heap[p.s.b].keys[i]))


----------------------------------------------------------------------------
(* Goroutines and the struct cache *)

\* ResetCache has not emptied the cache so far.
NoReset == conc.resets = 0 /\ conc.rpc \in {"idle", "locking", "locked"}

\* Every descriptor handed out by getStructTypeInfo so far, to the running
\* goroutine and to the others.
AllHanded == conc.got \cup UNION { conc.parked[g].got : g \in DOMAIN conc.parked }

\* The goroutines whose calls have ended.
AllEnded == Ended(phase) /\ \A g \in DOMAIN conc.parked : Ended(conc.parked[g].phase)

\* C24: as long as no reset has emptied the cache, a struct type is inserted
\* at most once whatever the number of goroutines that missed it, and every
\* descriptor getStructTypeInfo has handed out for the type, on any of its
\* three returns, is the one structTypeInfo published in the cache.
C24_OneInsertOnePublished ==
    NoReset =>
        /\ \A t \in DOMAIN conc.inserts : conc.inserts[t] = 1
        /\ DOMAIN conc.inserts = DOMAIN structCache
        /\ \A h \in AllHanded :
               /\ h.t \in DOMAIN structCache
               /\ h.id = conc.ids[h.t]
               /\ h.info = structCache[h.t]

\* C24 witness: with no reset, two goroutines missed the cache for one type;
\* one stored the descriptor and the other found it at the second lookup,
\* under the write lock.
C24_Witness ==
    /\ NoReset
    /\ \E h \in conc.got : \E g \in DOMAIN conc.parked : \E k \in conc.parked[g].got :
           /\ h.how = "recheck"
           /\ k.how = "store"
           /\ k.t = h.t
           /\ k.id = h.id

\* The struct types in a value: its own and those of its fields and elements.
RECURSIVE StructsIn(_)
StructsIn(v) ==
    (IF v.k = "Struct" THEN {v.t} ELSE {}) \cup UNION { StructsIn(v.e[i]) : i \in 1..Len(v.e) }

\* The struct types of the values reachable from v.
StructTypesOf(h, v) ==
    UNION { StructsIn(w) : w \in {v} \cup UNION { Contents(h, c) : c \in Reach(h, v) } }

\* The K distinct struct types the goroutines were given to clone.
ClonedTypes ==
    StructTypesOf(heap, src)
    \cup UNION { StructTypesOf(heap, conc.parked[g].src) : g \in DOMAIN conc.parked }

\* C21: with no reset, once every goroutine's Clone call has ended the cache
\* holds exactly the struct types the goroutines cloned, whatever the
\* interleaving was: none is missing and each was inserted once.
C21_ExactlyKEntries ==
    (AllEnded /\ NoReset) =>
        /\ DOMAIN structCache = ClonedTypes
        /\ Cardinality(DOMAIN structCache) = Cardinality(ClonedTypes)
        /\ \A t \in ClonedTypes : conc.inserts[t] = 1

\* C21 witness: two goroutines, one cloning an Outer holding an Inner and one
\* cloning an Inner, have both returned with no reset; the cache holds the two
\* types.
C21_Witness ==
    /\ AllEnded /\ NoReset
    /\ phase = "done"
    /\ \E g \in DOMAIN conc.parked :
           /\ conc.parked[g].phase = "done"
           /\ {T, conc.parked[g].T} = {"Outer", "Inner"}
    /\ DOMAIN structCache = {"Outer", "Inner"}

\* The calls of all goroutines: input, position, visited table and result.
EveryCall ==
    { [g |-> conc.cur, src |-> src, phase |-> phase, visited |-> visited, result |-> result] }
    \cup { [g |-> g, src |-> conc.parked[g].src, phase |-> conc.parked[g].phase,
            visited |-> conc.parked[g].visited, result |-> conc.parked[g].result] :
               g \in DOMAIN conc.parked }

\* The blocks the entries of a visited table refer to.
VisitedBlocks(vis) == { vis[a].b : a \in DOMAIN vis }

\* C22: concurrent Clone calls on unrelated inputs or on the same input all
\* return, each with a clone structurally equal to its input; no visited
\* table refers to storage another call's table refers to, and the clones
\* share no storage with one another or with any source.
C22_ConcurrentCallsCorrect ==
    /\ \A c \in EveryCall : \A d \in EveryCall :
           c.g # d.g => VisitedBlocks(c.visited) \cap VisitedBlocks(d.visited) = {}
    /\ \A c \in EveryCall : c.phase \notin {"panic", "overflow"}
    /\ \A c \in EveryCall : c.phase = "done" =>
           /\ StructurallyEqual(heap, c.src, c.result)
           /\ \A d \in EveryCall :
                  /\ Reach(heap, c.result) \cap Reach(heap, d.src) = {}
                  /\ (d.g # c.g /\ d.phase = "done") =>
                         Reach(heap, c.result) \cap Reach(heap, d.result) = {}

\* The goroutines holding cacheMutex, for reading or for writing.
Holders == conc.readers \cup conc.writer

\* Where goroutine g is in getStructTypeInfo ("run" outside it).
PcOf(g) == IF g = conc.cur THEN conc.pc ELSE conc.parked[g].pc

\* The lock is held only between a lock operation of getStructTypeInfo and
\* the matching unlock: not while cloneStruct walks the fields, not by a call
\* that has ended, not for reading by one who is about to Lock.
LockDiscipline ==
    /\ \A g \in 1..NumGoroutines :
           /\ g \in conc.readers <=> PcOf(g) = "rlocked"
           /\ g \in conc.writer <=> PcOf(g) \in {"locked", "unlocking"}
           /\ g \in conc.waiting <=> PcOf(g) = "locking"
    /\ (phase # "walk" \/ mode # "call" \/ arg.k # "Struct") => conc.pc = "run"
    /\ Cardinality(conc.writer) <= 1
    /\ conc.writer # {} => conc.readers = {}
    /\ Holders \cap conc.waiting = {}

\* Every call has returned.
AllDone == phase = "done" /\ \A g \in DOMAIN conc.parked : conc.parked[g].phase = "done"

\* C29: no goroutine holds cacheMutex outside getStructTypeInfo, so never
\* while the walker recurses into fields, and none asks for it while holding
\* it; under fair scheduling every Clone call eventually returns, with
\* nested structs, several goroutines and resets contending for the lock.
C29_LockReleasedCallsReturn == [](LockDiscipline) /\ <>[](AllDone)

\* C29 witness: the goroutine cloning an Outer has left getStructTypeInfo for
\* Outer and walks its field, holding no lock; for the nested Inner it waits in
\* Lock while a ResetCache holds the write lock.
C29_Witness ==
    /\ T = "Outer" /\ phase = "walk" /\ Len(stack) >= 1
    /\ InGetInfo("locking") /\ arg.t = "Inner"
    /\ conc.cur \notin Holders
    /\ conc.writer = {Resetter}

\* A ResetCache call has begun or has returned.
SomeReset == conc.resets > 0 \/ conc.rpc # "idle"

\* C23: with ResetCache running beside the Clone calls, every descriptor
\* getStructTypeInfo hands out is the complete descriptor of its type, no call
\* panics, every call that returns has the clone it has without resets
\* (structurally equal to its input; the Registry value is cloned wrongly
\* with or without resets, C30), and once a reset has begun every call still
\* returns; when all calls have ended the cache holds complete descriptors
\* only, of types that were cloned, and CacheStats counts them and their
\* fields.
C23_ResetKeepsCallsRight ==
    /\ [](\A h \in AllHanded : h.info = ComputeStructTypeInfo(h.t))
    /\ [](\A c \in EveryCall :
             /\ c.phase \notin {"panic", "overflow"}
             /\ (c.phase = "done" /\ c.src.t # "Registry") =>
                    StructurallyEqual(heap, c.src, c.result))
    /\ [](AllEnded =>
             /\ \A t \in DOMAIN structCache :
                    /\ structCache[t] = ComputeStructTypeInfo(t)
                    /\ Len(structCache[t].actions) = NumField(t)
                    /\ Len(structCache[t].fields) = NumField(t)
             /\ DOMAIN structCache \subseteq ClonedTypes
             /\ CacheStats(structCache).entries \in 0..Cardinality(ClonedTypes)
             /\ CacheStats(structCache).entries = Cardinality(DOMAIN structCache)
             /\ CacheStats(structCache).fields = SumNumField(DOMAIN structCache))
    /\ (SomeReset ~> AllDone)

\* C23 witness: all calls have returned, a reset ran between two insertions,
\* so the cache holds some of the cloned types but not all, and a descriptor
\* handed out before the reset is no longer in the cache.
C23_Witness ==
    /\ AllDone
    /\ conc.resets = 1 /\ conc.rpc = "idle"
    /\ structCache # << >>
    /\ DOMAIN structCache # ClonedTypes
    /\ \E h \in AllHanded : h.t \notin DOMAIN structCache

====
